---- MODULE Spec2Model ----
(***************************************************************************)
(* Model of the WebGL compute-shader kernel compiler of tfjs-core:         *)
(*   - the four tiled matmul kernel generators (MatMulPackedProgramCS,     *)
(*     CSV2, CSV3, CSV4) and the GLSL kernels they emit, executed thread   *)
(*     by thread inside one workgroup;                                     *)
(*   - the coordinate mapping compiler of shader_compiler.ts (input        *)
(*     samplers, output coordinate decoders, broadcasting accessors).      *)
(***************************************************************************)
EXTENDS Integers, Sequences, FiniteSets, TLC

VARIABLES
  cfg,      \* constructor arguments, input textures and the workgroup observed
  phase,    \* "idle" | "args" | "built" | "running" | "compile_error"
  desc,     \* the kernel descriptor returned by the constructor
  pc,       \* per thread: position in main()
  tile,     \* per thread: loop variable t
  acc,      \* per thread: accumulator registers, indexed by work item
  Asub,     \* shared vec4 Asub[..][..]
  Bsub,     \* shared vec4 Bsub[..][..]
  kvisit,   \* per thread: packed contraction indices visited, in order
  nAct,     \* per thread and work item: times activation() was applied
  nBias,    \* per thread and work item: times the bias was added
  stores,   \* every imageStore issued: [pos, th, item]
  out       \* the output image: texel position -> vec4 (or NoTexel)

mmvars == <<cfg, phase, desc, pc, tile, acc, Asub, Bsub, kvisit, nAct, nBias,
            stores, out>>

VARIABLES
  cq,       \* coordinate query: one tensor description and one position
  cpc,      \* "idle" | "start" | "fetchedS" | "fetched" | "decodedS" | "done"
  uvS,      \* texel addressed by the sampling-mode accessor (texture2D)
  uvI,      \* texel addressed by the indexed-mode accessor (texelFetch)
  backS,    \* coordinate the sampling-mode output decoder returns
  backI,    \* coordinate the indexed-mode output decoder returns
  bq,       \* broadcast query: one input read at the coordinates of one output
  binv,     \* number of output invocations that have run
  reads     \* per invocation: output coordinate and the input channels read

covars == <<cq, cpc, uvS, uvI, backS, backI, bq, binv, reads>>

VARIABLES
  env,      \* the global configuration ENV: [PROD]
  breq,     \* arguments of the makeShader / makeCSShader call in progress
  bpc,      \* position inside the call; "returned" and "threw" end it
  bi,       \* number of inputs whose sampling snippet has been emitted
  heap,     \* the InputInfo / ShapeInfo objects: the caller's and the copies
  snip,     \* snippets emitted so far, by stage
  source,   \* the source returned (a sequence of function items)
  prev      \* sources returned by earlier calls with the same arguments

asmvars == <<env, breq, bpc, bi, heap, snip, source, prev>>

VARIABLES
  cv,       \* convolution build: kernel, convInfo, descriptor, workgroup observed
  cvpc,     \* position of the workgroup's threads in main() of the kernel
  cache,    \* shared float cache[CACHE_H][CACHE_W * CACHE_C]
  cvreads,  \* the reads of the cache by the observed thread's accumulation loops
  cvout     \* value the observed thread handed to setOutput

convvars == <<cv, cvpc, cache, cvreads, cvout>>

othervars == <<asmvars, convvars>>

vars == <<mmvars, covars, othervars>>

\* no assembler call is in progress
AsmIdle ==
  /\ env = [PROD |-> FALSE] /\ breq = [kind |-> "none"] /\ bpc = "idle" /\ bi = 0
  /\ heap = << >> /\ snip = << >> /\ source = << >> /\ prev = << >>

\* no convolution kernel is being built or run
ConvIdle ==
  /\ cv = [kind |-> "none"] /\ cvpc = [phase |-> "idle"] /\ cache = << >>
  /\ cvreads = << >> /\ cvout = << >>

\* no coordinate query is being evaluated
CoIdle ==
  /\ cq = [kind |-> "none"] /\ cpc = "idle"
  /\ uvS = << >> /\ uvI = << >> /\ backS = << >> /\ backI = << >>
  /\ bq = [mode |-> "none"] /\ binv = 0 /\ reads = << >>

-----------------------------------------------------------------------------
(* Bounds of the matmul model *)

MaxM == 3
MaxN == 3
MaxK == 5

-----------------------------------------------------------------------------
(* Arithmetic helpers *)

CeilDiv(a, b) == (a + b - 1) \div b

(* vec4 values are 4-tuples; .x .y .z .w are components 1..4 *)
Vec4(a) == <<a, a, a, a>>
V4Add(a, b) == [i \in 1..4 |-> a[i] + b[i]]
V4Mul(a, b) == [i \in 1..4 |-> a[i] * b[i]]
Swz(a, s) == [i \in 1..4 |-> a[s[i]]]

xxyy == <<1, 1, 2, 2>>
zzww == <<3, 3, 4, 4>>
xxzz == <<1, 1, 3, 3>>
yyww == <<2, 2, 4, 4>>
xzxz == <<1, 3, 1, 3>>
ywyw == <<2, 4, 2, 4>>
xyxy == <<1, 2, 1, 2>>
zwzw == <<3, 4, 3, 4>>

NoTexel == <<"none">>

-----------------------------------------------------------------------------
(* Packed texture storage (Texture Packing Scheme): one texel holds the 2x2 *)
(* block (2tr,2tc) (2tr,2tc+1) (2tr+1,2tc) (2tr+1,2tc+1) of the two inner   *)
(* axes; texels are laid out row-major in the physical texture of           *)
(* ceil(texShape/2) texels; positions outside the logical shape hold 0.     *)

PackedTexShape(texShape) == <<CeilDiv(texShape[1], 2), CeilDiv(texShape[2], 2)>>

-----------------------------------------------------------------------------
(* Index-math helpers of the compute-shader prefix *)

imod(x, y) == x - y * (x \div y)

packedUVfrom2DCS(texelsInLogicalRow, texNumR, texNumC, row, col) ==
  LET texelIndex == (row \div 2) * texelsInLogicalRow + (col \div 2)
      texR == texelIndex \div texNumC
      texC == texelIndex - texR * texNumC
  IN <<texC, texR>>

packedUVfrom3DCS(texNumR, texNumC, texelsInBatch, texelsInLogicalRow, b, row, col) ==
  LET index == b * texelsInBatch + (row \div 2) * texelsInLogicalRow + (col \div 2)
      texR == index \div texNumC
      texC == index - texR * texNumC
  IN <<texC, texR>>

(* Packed input accessors, indexed mode: the texel position given to texelFetch *)

getPackedSampler2DCS(shape, texShape, row, col) ==
  IF shape = texShape
    THEN <<col, row>>
    ELSE LET p == PackedTexShape(texShape)
         IN packedUVfrom2DCS(CeilDiv(shape[2], 2), p[1], p[2], row, col)

getPackedSampler3DCS(shape, texShape, b, row, col) ==
  IF shape[1] = 1
    THEN getPackedSampler2DCS(<<shape[2], shape[3]>>, texShape, row, col)
    ELSE LET p == PackedTexShape(texShape)
             valuesPerRow == CeilDiv(shape[3], 2)
             texelsInBatch == valuesPerRow * CeilDiv(shape[2], 2)
         IN packedUVfrom3DCS(p[1], p[2], texelsInBatch, valuesPerRow, b, row, col)

-----------------------------------------------------------------------------
(* Matmul inputs *)

Variants == {"CS", "V2", "V3", "V4"}
TileSizes == {1, 2}
UndefValues == {0, 7}

\* op(A) is M x K, op(B) is K x N
XVal(i, k) == 1 + i * 7 + k
YVal(k, j) == 2 + k * 5 + 3 * j
BiasVal(j) == 50 + j

\* storage of A and B as handed to the kernel (transposed when the flag is set)
AData(r, c) == IF cfg.transposeA THEN XVal(c, r) ELSE XVal(r, c)
BData(r, c) == IF cfg.transposeB THEN YVal(c, r) ELSE YVal(r, c)

TensorData(name, r, c) ==
  CASE name = "matrixA" -> AData(r, c)
    [] name = "matrixB" -> BData(r, c)

\* the texel at position uv of the packed texture of the rank-2 tensor `name`
\* of R x C values
PackedTexel2D(name, R, C, texShape, uv, undef) ==
  LET p   == PackedTexShape(texShape)
      vpr == CeilDiv(C, 2)
      idx == uv[2] * p[2] + uv[1]
      tr  == idx \div vpr
      tc  == idx % vpr
      At(r, c) == IF r < R /\ c < C THEN TensorData(name, r, c) ELSE 0
  IN IF uv[1] < 0 \/ uv[1] >= p[2] \/ uv[2] < 0 \/ uv[2] >= p[1]
       THEN Vec4(undef)
       ELSE <<At(2 * tr, 2 * tc), At(2 * tr, 2 * tc + 1),
              At(2 * tr + 1, 2 * tc), At(2 * tr + 1, 2 * tc + 1)>>

\* the naive triple loop
RECURSIVE DotK(_, _, _)
DotK(i, j, k) == IF k = 0 THEN 0 ELSE XVal(i, k - 1) * YVal(k - 1, j) + DotK(i, j, k - 1)

NaiveC(i, j) == IF i < cfg.M /\ j < cfg.N THEN DotK(i, j, cfg.K) ELSE 0

NaiveTexel(x, y) ==
  <<NaiveC(2 * y, 2 * x), NaiveC(2 * y, 2 * x + 1),
    NaiveC(2 * y + 1, 2 * x), NaiveC(2 * y + 1, 2 * x + 1)>>

Divisors(n) == {d \in 1..n : n % d = 0}

Tilings(v) ==
  CASE v = "CS" -> {[TS |-> ts, WPT |-> 1, TSK |-> ts] : ts \in TileSizes}
    [] v = "V4" -> UNION {{[TS |-> ts, WPT |-> w, TSK |-> tk] : w \in Divisors(ts), tk \in TileSizes}
                           : ts \in TileSizes}
    [] OTHER    -> UNION {{[TS |-> ts, WPT |-> w, TSK |-> ts] : w \in Divisors(ts)}
                           : ts \in TileSizes}

Even(n) == 2 * CeilDiv(n, 2)

\* storage shape of a packed batch-1 tensor of R x C values: both axes even
TexShapes(R, C) == {<<Even(R), Even(C)>>}

aShapeOf(M, K, tA) == IF tA THEN <<1, K, M>> ELSE <<1, M, K>>
bShapeOf(K, N, tB) == IF tB THEN <<1, N, K>> ELSE <<1, K, N>>

-----------------------------------------------------------------------------
(* The kernel generators.  Each constructor returns the descriptor; the     *)
(* fields below userCode are the values interpolated into the GLSL text.    *)

BaseNames == <<"matrixA", "matrixB">>

sharedDimOf(c) == IF c.transposeA THEN c.aShape[2] ELSE c.aShape[3]

MatMulPackedProgramCS(c) ==
  LET sharedDimensionPacked == CeilDiv(sharedDimOf(c), 2)
  IN [variant |-> "CS",
      variableNames |-> IF c.addBias THEN Append(BaseNames, "bias") ELSE BaseNames,
      outputShape |-> c.outShape,
      localGroupSize |-> <<c.TS, c.TS>>,
      workPerThread |-> <<1, 1>>,
      TSM |-> c.TS, TSN |-> c.TS, TSK |-> c.TS, RTSM |-> c.TS, RTSN |-> c.TS,
      WPTM |-> 1, WPTN |-> 1,
      numTiles |-> CeilDiv(sharedDimensionPacked, c.TS),
      sizeRem |-> sharedDimensionPacked % c.TS,
      LPTAnum |-> 1, LPTAden |-> 1,
      accInit |-> TRUE,
      biasStmt |-> IF c.addBias THEN "vec4" ELSE "none",
      actStmt |-> IF c.activation THEN "vec4" ELSE "none",
      storeGuard |-> FALSE,
      errorLogged |-> FALSE,
      threw |-> FALSE]

MatMulPackedProgramCSV2(c) ==
  LET sharedDimensionPacked == CeilDiv(sharedDimOf(c), 2)
      RTS == c.TS \div c.WPT
  IN [variant |-> "V2",
      variableNames |-> IF c.addBias THEN Append(BaseNames, "bias") ELSE BaseNames,
      outputShape |-> c.outShape,
      localGroupSize |-> <<c.TS, RTS>>,
      workPerThread |-> <<1, c.WPT>>,
      TSM |-> c.TS, TSN |-> c.TS, TSK |-> c.TS, RTSM |-> RTS, RTSN |-> c.TS,
      WPTM |-> c.WPT, WPTN |-> 1,
      numTiles |-> CeilDiv(sharedDimensionPacked, c.TS),
      sizeRem |-> sharedDimensionPacked % c.TS,
      LPTAnum |-> 1, LPTAden |-> 1,
      accInit |-> FALSE,
      biasStmt |-> IF c.addBias THEN "array" ELSE "none",
      actStmt |-> IF c.activation THEN "array" ELSE "none",
      storeGuard |-> FALSE,
      errorLogged |-> FALSE,
      threw |-> FALSE]

MatMulPackedProgramCSV3(c) ==
  LET sharedDimensionPacked == CeilDiv(sharedDimOf(c), 2)
      RTS == c.TS \div c.WPT
  IN [variant |-> "V3",
      variableNames |-> BaseNames,
      outputShape |-> c.outShape,
      localGroupSize |-> <<RTS, RTS>>,
      workPerThread |-> <<c.WPT, c.WPT>>,
      TSM |-> c.TS, TSN |-> c.TS, TSK |-> c.TS, RTSM |-> RTS, RTSN |-> RTS,
      WPTM |-> c.WPT, WPTN |-> c.WPT,
      numTiles |-> CeilDiv(sharedDimensionPacked, c.TS),
      sizeRem |-> sharedDimensionPacked % c.TS,
      LPTAnum |-> 1, LPTAden |-> 1,
      accInit |-> TRUE,
      biasStmt |-> "none",
      actStmt |-> IF c.activation THEN "element" ELSE "none",
      storeGuard |-> TRUE,
      errorLogged |-> c.addBias,
      threw |-> FALSE]

MatMulPackedProgramCSV4(c) ==
  LET sharedDimensionPacked == CeilDiv(sharedDimOf(c), 2)
      TSM == c.TS
      TSN == c.TS
      WPTM == c.WPT
      WPTN == c.WPT
  IN [variant |-> "V4",
      variableNames |-> BaseNames,
      outputShape |-> c.outShape,
      localGroupSize |-> <<TSN \div WPTN, TSM \div WPTM>>,
      workPerThread |-> <<WPTN, WPTM>>,
      TSM |-> TSM, TSN |-> TSN, TSK |-> c.TSK,
      RTSM |-> TSM \div WPTM, RTSN |-> TSN \div WPTN,
      WPTM |-> WPTM, WPTN |-> WPTN,
      numTiles |-> CeilDiv(sharedDimensionPacked, c.TSK),
      sizeRem |-> sharedDimensionPacked % c.TSK,
      LPTAnum |-> c.TSK * WPTM * WPTN, LPTAden |-> TSN,
      accInit |-> TRUE,
      biasStmt |-> "none",
      actStmt |-> IF c.activation THEN "element" ELSE "none",
      storeGuard |-> TRUE,
      errorLogged |-> c.addBias,
      threw |-> FALSE]

\* GLSL ES 3.10 typing of the emitted body: operators on a whole array and a
\* comparison of the int loop counter with a non-integral literal are rejected
GlslCompiles(d) ==
  /\ d.biasStmt # "array"
  /\ d.actStmt # "array"
  /\ d.LPTAnum % d.LPTAden = 0

-----------------------------------------------------------------------------
(* Execution of the emitted kernel by the threads of one workgroup *)

Threads == {<<x, y>> : x \in 0..(desc.localGroupSize[1] - 1),
                       y \in 0..(desc.localGroupSize[2] - 1)}

Items == {<<wm, wn>> : wm \in 0..(desc.WPTM - 1), wn \in 0..(desc.WPTN - 1)}

\* number of workgroups the engine dispatches: the output texels padded to
\* whole tiles
DispatchGrid(d) ==
  LET pM == CeilDiv(d.outputShape[2], 2)
      pN == CeilDiv(d.outputShape[3], 2)
  IN <<CeilDiv(pN, d.localGroupSize[1] * d.workPerThread[1]),
       CeilDiv(pM, d.localGroupSize[2] * d.workPerThread[2])>>

OutPacked == <<CeilDiv(cfg.M, 2), CeilDiv(cfg.N, 2)>>

\* texelFetch of the two inputs through the emitted accessors
getMatrixA(b, row, col) ==
  PackedTexel2D("matrixA", cfg.aShape[2], cfg.aShape[3], cfg.aTex,
                getPackedSampler3DCS(cfg.aShape, cfg.aTex, b, row, col), cfg.undef)

getMatrixB(b, row, col) ==
  PackedTexel2D("matrixB", cfg.bShape[2], cfg.bShape[3], cfg.bTex,
                getPackedSampler3DCS(cfg.bShape, cfg.bTex, b, row, col), cfg.undef)

aFetch(r, k) == IF cfg.transposeA THEN getMatrixA(0, k * 2, r * 2)
                                  ELSE getMatrixA(0, r * 2, k * 2)
bFetch(k, c) == IF cfg.transposeB THEN getMatrixB(0, c * 2, k * 2)
                                  ELSE getMatrixB(0, k * 2, c * 2)

\* row / column of the first output texel of a thread
GlobalRow(th) == desc.TSM * cfg.wg[2] + th[2]
GlobalCol(th) == desc.TSN * cfg.wg[1] + th[1]

\* shared-memory cells a thread writes in the load phase of tile t
LoadWritesCS(th, t) ==
  LET row == th[2]
      col == th[1]
      tileRow == desc.TSK * t + row
      tileCol == desc.TSK * t + col
  IN {[arr |-> "A", cell |-> <<row, col>>, val |-> aFetch(GlobalRow(th), tileCol)],
      [arr |-> "B", cell |-> <<row, col>>, val |-> bFetch(tileRow, GlobalCol(th))]}

LoadWritesV2(th, t) ==
  LET row == th[2]
      col == th[1]
      RTS == desc.RTSM
      tileRow == desc.TSK * t + row
      tileCol == desc.TSK * t + col
  IN UNION {{[arr |-> "A", cell |-> <<row + w * RTS, col>>,
              val |-> aFetch(GlobalRow(th) + w * RTS, tileCol)],
             [arr |-> "B", cell |-> <<row + w * RTS, col>>,
              val |-> bFetch(tileRow + w * RTS, GlobalCol(th))]}
            : w \in 0..(desc.WPTM - 1)}

LoadWritesV3(th, t) ==
  LET row == th[2]
      col == th[1]
      RTS == desc.RTSM
      tileRow == desc.TSK * t + row
      tileCol == desc.TSK * t + col
  IN UNION {{[arr |-> "A", cell |-> <<row + it[1] * RTS, col + it[2] * RTS>>,
              val |-> aFetch(GlobalRow(th) + it[1] * RTS, tileCol + it[2] * RTS)],
             [arr |-> "B", cell |-> <<row + it[1] * RTS, col + it[2] * RTS>>,
              val |-> bFetch(tileRow + it[1] * RTS, GlobalCol(th) + it[2] * RTS)]}
            : it \in Items}

LPTA == desc.LPTAnum \div desc.LPTAden

LoadWritesV4(th, t) ==
  LET tidm == th[2]
      tidn == th[1]
      offsetM == desc.TSM * cfg.wg[2]
      offsetN == desc.TSN * cfg.wg[1]
      tid == tidm * desc.RTSN + tidn
      id(i) == i * desc.RTSN * desc.RTSM + tid
      row(i) == id(i) \div desc.TSK
      col(i) == imod(id(i), desc.TSK)
      tiledIndex(i) == desc.TSK * t + col(i)
  IN UNION {{[arr |-> "A", cell |-> <<row(i), col(i)>>,
              val |-> aFetch(offsetM + row(i), tiledIndex(i))],
             [arr |-> "B", cell |-> <<col(i), row(i)>>,
              val |-> bFetch(tiledIndex(i), offsetN + row(i))]}
            : i \in 0..(LPTA - 1)}

LoadWrites(th, t) ==
  CASE desc.variant = "CS" -> LoadWritesCS(th, t)
    [] desc.variant = "V2" -> LoadWritesV2(th, t)
    [] desc.variant = "V3" -> LoadWritesV3(th, t)
    [] desc.variant = "V4" -> LoadWritesV4(th, t)

sizeTS_NoRemainder(t) == desc.TSK

\* loop bound of the accumulation loop of tile t
sizeTS(t) == IF t = desc.numTiles - 1 /\ desc.sizeRem # 0 THEN desc.sizeRem ELSE desc.TSK

\* one multiply-accumulate on packed 2x2 blocks
aSwizzle == IF cfg.transposeA THEN <<xxyy, zzww>> ELSE <<xxzz, yyww>>
bSwizzle == IF cfg.transposeB THEN <<xzxz, ywyw>> ELSE <<xyxy, zwzw>>

Mac(a, b) == V4Add(V4Mul(Swz(a, aSwizzle[1]), Swz(b, bSwizzle[1])),
                   V4Mul(Swz(a, aSwizzle[2]), Swz(b, bSwizzle[2])))

\* row of Asub / column of Bsub a work item of a thread reads
ARow(th, it) == th[2] + it[1] * desc.RTSM
BCol(th, it) == th[1] + it[2] * desc.RTSN

RECURSIVE Accumulate(_, _, _, _)
Accumulate(r, th, it, n) ==
  IF n = 0 THEN r
  ELSE V4Add(Accumulate(r, th, it, n - 1),
             Mac(Asub[<<ARow(th, it), n - 1>>], Bsub[<<n - 1, BCol(th, it)>>]))

\* the user-supplied activation snippet (a stand-in that is not idempotent)
activation(x) == [i \in 1..4 |-> 2 * x[i] + 1]

\* packed 3-D output decoder evaluated at the thread's invocation id, and the
\* bias texel getBiasAtOutCoords() returns for it
getBiasAtOutCoords(th) ==
  LET c == 2 * GlobalCol(th)
      B(j) == IF j < cfg.N THEN BiasVal(j) ELSE 0
  IN <<B(c), B(c + 1), B(c), B(c + 1)>>

\* output texel a work item is stored to
StorePos(th, it) == <<GlobalCol(th) + it[2] * desc.RTSN, GlobalRow(th) + it[1] * desc.RTSM>>

InOutput(pos) == pos[1] < OutPacked[2] /\ pos[2] < OutPacked[1]

\* the work items whose imageStore is executed
StoredItems(th) ==
  IF desc.storeGuard THEN {it \in Items : InOutput(StorePos(th, it))} ELSE Items

-----------------------------------------------------------------------------
(* State machine of one kernel build followed by the run of one workgroup *)

NoDesc == [variant |-> "none"]

MMIdle ==
  /\ phase = "idle"
  /\ cfg = [variant |-> "none"]
  /\ desc = NoDesc
  /\ pc = << >> /\ tile = << >> /\ acc = << >>
  /\ Asub = << >> /\ Bsub = << >>
  /\ kvisit = << >> /\ nAct = << >> /\ nBias = << >>
  /\ stores = {} /\ out = << >>

\* the constructor arguments and input textures of one build
Configs(Ms, Ns, Ks, flags, biases, acts) ==
  UNION UNION UNION UNION {{{{
    {[variant |-> v, M |-> m, N |-> n, K |-> k,
      aShape |-> aShapeOf(m, k, tAB[1]), bShape |-> bShapeOf(k, n, tAB[2]),
      outShape |-> <<1, m, n>>,
      transposeA |-> tAB[1], transposeB |-> tAB[2],
      TS |-> tl.TS, WPT |-> tl.WPT, TSK |-> tl.TSK,
      addBias |-> ba[1], activation |-> ba[2],
      aTex |-> at, bTex |-> bt, undef |-> u]
      : at \in TexShapes(aShapeOf(m, k, tAB[1])[2], aShapeOf(m, k, tAB[1])[3]),
        bt \in TexShapes(bShapeOf(k, n, tAB[2])[2], bShapeOf(k, n, tAB[2])[3]),
        u \in UndefValues, ba \in biases \X acts}
    : tl \in Tilings(v)} : tAB \in flags} : m \in Ms, n \in Ns, k \in Ks} : v \in Variants}

MMInitWith(C) ==
  /\ phase = "args"
  /\ \E c \in C : cfg = c
  /\ desc = NoDesc
  /\ pc = << >> /\ tile = << >> /\ acc = << >>
  /\ Asub = << >> /\ Bsub = << >>
  /\ kvisit = << >> /\ nAct = << >> /\ nBias = << >>
  /\ stores = {} /\ out = << >>
  /\ CoIdle /\ AsmIdle /\ ConvIdle

\* new MatMulPackedProgramCS*(...)
Construct ==
  /\ phase = "args"
  /\ desc' = CASE cfg.variant = "CS" -> MatMulPackedProgramCS(cfg)
               [] cfg.variant = "V2" -> MatMulPackedProgramCSV2(cfg)
               [] cfg.variant = "V3" -> MatMulPackedProgramCSV3(cfg)
               [] cfg.variant = "V4" -> MatMulPackedProgramCSV4(cfg)
  /\ phase' = "built"
  /\ UNCHANGED <<covars, othervars, cfg, pc, tile, acc, Asub, Bsub, kvisit, nAct, nBias, stores, out>>

\* the engine compiles the source and dispatches the grid; one workgroup of
\* the grid is followed
Launch ==
  /\ phase = "built"
  /\ ~desc.threw
  /\ IF GlslCompiles(desc)
       THEN /\ \E wx \in 0..(DispatchGrid(desc)[1] - 1), wy \in 0..(DispatchGrid(desc)[2] - 1) :
                 cfg' = [c \in DOMAIN cfg \cup {"wg"} |-> IF c = "wg" THEN <<wx, wy>> ELSE cfg[c]]
            /\ phase' = "running"
            /\ pc' = [th \in Threads |-> "load"]
            /\ tile' = [th \in Threads |-> 0]
            /\ acc' = [th \in Threads |-> [it \in Items |->
                          IF desc.accInit THEN Vec4(0) ELSE Vec4(cfg.undef)]]
            /\ Asub' = [cell \in (0..(desc.TSM - 1)) \X (0..(desc.TSK - 1)) |-> Vec4(cfg.undef)]
            /\ Bsub' = [cell \in (0..(desc.TSK - 1)) \X (0..(desc.TSN - 1)) |-> Vec4(cfg.undef)]
            /\ kvisit' = [th \in Threads |-> << >>]
            /\ nAct' = [th \in Threads |-> [it \in Items |-> 0]]
            /\ nBias' = [th \in Threads |-> [it \in Items |-> 0]]
            /\ out' = [pos \in (0..(OutPacked[2] - 1)) \X (0..(OutPacked[1] - 1)) |-> NoTexel]
            /\ UNCHANGED <<covars, othervars, desc, stores>>
       ELSE /\ phase' = "compile_error"
            /\ UNCHANGED <<covars, othervars, cfg, desc, pc, tile, acc, Asub, Bsub, kvisit, nAct, nBias, stores, out>>

Written(arr, cell, W) == \E w \in W : w.arr = arr /\ w.cell = cell
ValueOf(arr, cell, W) == (CHOOSE w \in W : w.arr = arr /\ w.cell = cell).val

\* a load phase that a thread whose first output texel is outside the output
\* leaves by returning
Load_ReturnOutside(th) ==
  /\ phase = "running"
  /\ pc[th] = "load"
  /\ LET W == LoadWrites(th, tile[th])
         inside == InOutput(StorePos(th, <<0, 0>>))
     IN /\ Asub' = [cell \in DOMAIN Asub |->
                      IF inside /\ Written("A", cell, W) THEN ValueOf("A", cell, W) ELSE Asub[cell]]
        /\ Bsub' = [cell \in DOMAIN Bsub |->
                      IF inside /\ Written("B", cell, W) THEN ValueOf("B", cell, W) ELSE Bsub[cell]]
        /\ pc' = [pc EXCEPT ![th] = IF inside THEN "bar1" ELSE "done"]
  /\ UNCHANGED <<covars, othervars, cfg, phase, desc, tile, acc, kvisit, nAct, nBias, stores, out>>

\* Asub[..][..] = getMatrixA(...); Bsub[..][..] = getMatrixB(...);
Load(th) ==
  /\ phase = "running"
  /\ pc[th] = "load"
  /\ LET W == LoadWrites(th, tile[th])
     IN /\ Asub' = [cell \in DOMAIN Asub |->
                      IF Written("A", cell, W) THEN ValueOf("A", cell, W) ELSE Asub[cell]]
        /\ Bsub' = [cell \in DOMAIN Bsub |->
                      IF Written("B", cell, W) THEN ValueOf("B", cell, W) ELSE Bsub[cell]]
  /\ pc' = [pc EXCEPT ![th] = "bar1"]
  /\ UNCHANGED <<covars, othervars, cfg, phase, desc, tile, acc, kvisit, nAct, nBias, stores, out>>

\* barrier(): the threads waiting at it are released once the condition holds
barrier_NoWait(label) == \E th \in Threads : pc[th] = label

\* barrier(): no thread of the workgroup passes it before every thread of the
\* workgroup has reached it
barrier(label) == \A th \in Threads : pc[th] = label

\* memoryBarrierShared(); barrier();
BarrierLoaded ==
  /\ phase = "running"
  /\ barrier("bar1")
  /\ pc' = [th \in Threads |-> IF pc[th] = "bar1" THEN "compute" ELSE pc[th]]
  /\ UNCHANGED <<covars, othervars, cfg, phase, desc, tile, acc, Asub, Bsub, kvisit, nAct, nBias, stores, out>>

\* for (int i = 0; i < sizeTS; i++) { ... result += ... }
Compute(th) ==
  /\ phase = "running"
  /\ pc[th] = "compute"
  /\ LET n == sizeTS(tile[th])
     IN /\ acc' = [acc EXCEPT ![th] = [it \in Items |-> Accumulate(acc[th][it], th, it, n)]]
        /\ kvisit' = [kvisit EXCEPT ![th] =
                        @ \o [i \in 1..n |-> desc.TSK * tile[th] + (i - 1)]]
  /\ pc' = [pc EXCEPT ![th] = "bar2"]
  /\ UNCHANGED <<covars, othervars, cfg, phase, desc, tile, Asub, Bsub, nAct, nBias, stores, out>>

\* barrier(); t++
BarrierComputed ==
  /\ phase = "running"
  /\ barrier("bar2")
  /\ tile' = [th \in Threads |-> IF pc[th] = "bar2" THEN tile[th] + 1 ELSE tile[th]]
  /\ pc' = [th \in Threads |->
              IF pc[th] # "bar2" THEN pc[th]
              ELSE IF tile[th] + 1 < desc.numTiles THEN "load" ELSE "epilogue"]
  /\ UNCHANGED <<covars, othervars, cfg, phase, desc, acc, Asub, Bsub, kvisit, nAct, nBias, stores, out>>

\* bias, activation and the imageStore / setOutput calls after the tile loop
Store(th) ==
  /\ phase = "running"
  /\ pc[th] = "epilogue"
  /\ LET S == StoredItems(th)
         biased(it) == desc.biasStmt = "vec4"
         activated(it) == desc.actStmt = "vec4" \/ (desc.actStmt = "element" /\ it \in S)
         r1(it) == IF biased(it) THEN V4Add(acc[th][it], getBiasAtOutCoords(th)) ELSE acc[th][it]
         r2(it) == IF activated(it) THEN activation(r1(it)) ELSE r1(it)
     IN /\ acc' = [acc EXCEPT ![th] = [it \in Items |-> r2(it)]]
        /\ nBias' = [nBias EXCEPT ![th] = [it \in Items |-> IF biased(it) THEN 1 ELSE 0]]
        /\ nAct' = [nAct EXCEPT ![th] = [it \in Items |-> IF activated(it) THEN 1 ELSE 0]]
        /\ stores' = stores \cup {[pos |-> StorePos(th, it), th |-> th, item |-> it] : it \in S}
        /\ out' = [pos \in DOMAIN out |->
                     IF \E it \in S : StorePos(th, it) = pos
                       THEN r2(CHOOSE it \in S : StorePos(th, it) = pos)
                       ELSE out[pos]]
  /\ pc' = [pc EXCEPT ![th] = "done"]
  /\ UNCHANGED <<covars, othervars, cfg, phase, desc, tile, Asub, Bsub, kvisit>>

MMNext ==
  \/ Construct
  \/ Launch
  \/ \E th \in DOMAIN pc : Load(th)
  \/ BarrierLoaded
  \/ \E th \in DOMAIN pc : Compute(th)
  \/ BarrierComputed
  \/ \E th \in DOMAIN pc : Store(th)

AllTranspose == BOOLEAN \X BOOLEAN

\* builds without bias and activation, every shape and transpose combination
MMInit == MMInitWith(Configs(1..MaxM, 1..MaxN, 1..MaxK, AllTranspose, {FALSE}, {FALSE}))

SpecMM == MMInit /\ [][MMNext]_vars

AllDone == phase = "running" /\ \A th \in DOMAIN pc : pc[th] = "done"

-----------------------------------------------------------------------------
\* every output texel of the followed workgroup holds the naive product
OutputIsNaive ==
  \A th \in DOMAIN pc : \A it \in Items :
     InOutput(StorePos(th, it)) => out[StorePos(th, it)] = NaiveTexel(StorePos(th, it)[1], StorePos(th, it)[2])

\* builds that request a bias and / or an activation
MMEpiInit == MMInitWith(Configs(2..MaxM, {2}, {3}, {<<FALSE, FALSE>>}, BOOLEAN, BOOLEAN))

SpecMMEpi == MMEpiInit /\ [][MMNext]_vars

-----------------------------------------------------------------------------
(* Properties of the matmul generators *)

\* C1: after the run of a kernel built by any of the four generators (no
\* bias, no activation) every output texel equals the naive triple-loop product
C1_MatmulEqualsNaive == AllDone => OutputIsNaive

PackedSharedDim == CeilDiv(cfg.K, 2)
TileK == IF cfg.variant = "V4" THEN cfg.TSK ELSE cfg.TS

\* C2: the accumulation loops of a thread visit the packed contraction
\* indices 0, 1, ..., ceil(sharedDim/2) - 1, each exactly once and none beyond;
\* the loop bound of the last tile is the remainder when it is non-zero and the
\* full tile size otherwise
C2_TileLoopVisitsEachIndexOnce ==
  phase = "running" =>
    \A th \in DOMAIN pc :
      /\ \A i \in DOMAIN kvisit[th] : kvisit[th][i] = i - 1 /\ kvisit[th][i] < PackedSharedDim
      /\ pc[th] \in {"epilogue", "done"} => Len(kvisit[th]) = PackedSharedDim
      /\ (pc[th] = "bar2" /\ tile[th] = CeilDiv(PackedSharedDim, TileK) - 1) =>
            Len(kvisit[th]) - TileK * tile[th] =
              (IF PackedSharedDim % TileK # 0 THEN PackedSharedDim % TileK ELSE TileK)

C2_Witness ==
  /\ phase = "running"
  /\ PackedSharedDim % TileK # 0
  /\ CeilDiv(PackedSharedDim, TileK) >= 2
  /\ \E th \in DOMAIN pc : pc[th] = "done" /\ Len(kvisit[th]) = 3

\* C3: a build of CSV2, CSV3 or CSV4 with addBias = true throws instead of
\* returning a descriptor
C3_BiasRequestRejected ==
  (phase # "args" /\ cfg.addBias /\ cfg.variant \in {"V2", "V3", "V4"}) => desc.threw

\* C4: whenever an activation (and bias) is accepted, the emitted epilogue
\* applies it to each vec4 accumulator element, and every stored texel has had
\* it applied exactly once
C4_EpilogueAppliedOnce ==
  (phase \in {"built", "running", "compile_error"}) =>
    /\ cfg.activation => desc.actStmt \in {"vec4", "element"}
    /\ (\E i \in DOMAIN desc.variableNames : desc.variableNames[i] = "bias") => desc.biasStmt = "vec4"
    /\ \A s \in stores :
         /\ cfg.activation => nAct[s.th][s.item] = 1
         /\ (\E i \in DOMAIN desc.variableNames : desc.variableNames[i] = "bias") =>
               nBias[s.th][s.item] = 1

\* C5: no imageStore is issued to a texel outside the packed output shape
C5_NoStoreOutsideOutput == \A s \in stores : InOutput(s.pos)

-----------------------------------------------------------------------------
(* Coordinate mapping compiler (shader_compiler.ts).                        *)
(* A coordinate is a sequence of 0-based integers, one per axis.  A texel   *)
(* position is <<x, y>> = <<column, row>> in the physical texture, whose    *)
(* size <<rows, columns>> is texShape (unpacked) or ceil(texShape / 2)      *)
(* (packed).  The emitted GLSL functions are modelled by the value they     *)
(* compute for the shape constants baked into their source.                 *)

Null == -1

\* a call of a function that no stage of the assembled source defines
Undeclared == <<-1, -1>>
\* element of a uniform float array (no texture is read)
UniformElem(index) == <<-2, index>>
\* the emitter throws instead of returning source
Throws == <<-3, -3>>

RECURSIVE sizeFromShape(_)
sizeFromShape(shape) ==
  IF shape = << >> THEN 1 ELSE Head(shape) * sizeFromShape(Tail(shape))

\* util.squeezeShape: the axes of size other than 1, and their positions
keptDimsOf(shape) == SelectSeq([i \in 1..Len(shape) |-> i], LAMBDA i : shape[i] # 1)
squeezeShape(shape) == [newShape |-> SelectSeq(shape, LAMBDA d : d # 1),
                        keptDims |-> keptDimsOf(shape)]

squeezeInputInfo(inInfo, squeezedShape) == [inInfo EXCEPT !.logicalShape = squeezedShape]

\* the same list cut to its first Len(keptDims) entries
getSqueezedParams_Leading(params, keptDims) == [j \in 1..Len(keptDims) |-> params[j]]

getSqueezedParams(params, keptDims) == [j \in 1..Len(keptDims) |-> params[keptDims[j]]]

\* value of the uniform 'offset<Name>' the engine uploads with the texture
offsetOf(inInfo) == IF inInfo.flatOffset = Null THEN 0 ELSE inInfo.flatOffset

PhysShape(isPacked, texShape) == IF isPacked THEN PackedTexShape(texShape) ELSE texShape

(* A normalized coordinate vec2 uv is kept exactly, as                      *)
(* <<numerator x, denominator x, numerator y, denominator y>>.              *)
halfCR == <<1, 2, 1, 2>>

\* (vec2(texC, texR) + halfCR) / vec2(texNumC, texNumR)
centerUV(texC, texR, texNumC, texNumR) == <<2 * texC + 1, 2 * texNumC, 2 * texR + 1, 2 * texNumR>>

\* texture2D(sampler, uv) with nearest filtering: the texel that contains uv
texture2D(phys, uv) == <<(uv[1] * phys[2]) \div uv[2], (uv[3] * phys[1]) \div uv[4]>>

\* resultUV of the fragment that covers texel p of the output
resultUV(phys, p) == centerUV(p[1], p[2], phys[2], phys[1])

\* int(resultUV.x * n.0), int(resultUV.y * n.0)
resultUVx(phys, p, n) == (resultUV(phys, p)[1] * n) \div resultUV(phys, p)[2]
resultUVy(phys, p, n) == (resultUV(phys, p)[3] * n) \div resultUV(phys, p)[4]

(* SAMPLE_1D_SNIPPET, SAMPLE_2D_SNIPPET, SAMPLE_3D_SNIPPET (sampling mode) *)
uvFromFlat(texNumR, texNumC, index) ==
  LET texR == index \div texNumC
      texC == index - texR * texNumC
  IN centerUV(texC, texR, texNumC, texNumR)

packedUVfrom1D(texNumR, texNumC, index) ==
  LET texelIndex == index \div 2
      texR == texelIndex \div texNumC
      texC == texelIndex - texR * texNumC
  IN centerUV(texC, texR, texNumC, texNumR)

packedUVfrom2D(texelsInLogicalRow, texNumR, texNumC, row, col) ==
  LET texelIndex == (row \div 2) * texelsInLogicalRow + (col \div 2)
      texR == texelIndex \div texNumC
      texC == texelIndex - texR * texNumC
  IN centerUV(texC, texR, texNumC, texNumR)

packedUVfrom3D(texNumR, texNumC, texelsInBatch, texelsInLogicalRow, b, row, col) ==
  LET index == b * texelsInBatch + (row \div 2) * texelsInLogicalRow + (col \div 2)
      texR == index \div texNumC
      texC == index - texR * texNumC
  IN centerUV(texC, texR, texNumC, texNumR)

(* SAMPLE_1D_SNIPPET_CS (indexed mode) *)
uvFromFlatCS(texNumR, texNumC, index) ==
  LET texR == index \div texNumC
      texC == index - texR * texNumC
  IN <<texC, texR>>

packedUVfrom1DCS(texNumR, texNumC, index) ==
  LET texelIndex == index \div 2
      texR == texelIndex \div texNumC
      texC == texelIndex - texR * texNumC
  IN <<texC, texR>>

-----------------------------------------------------------------------------
(* Output coordinate decoders: getOutputCoords() of the invocation at texel *)
(* p of the output.  Sampling mode reads resultUV, indexed mode reads       *)
(* gl_GlobalInvocationID.xy = p.                                            *)

\* shader_util.getLogicalCoordinatesFromFlatIndex: row-major decomposition
RECURSIVE getLogicalCoordinatesFromFlatIndex(_, _)
getLogicalCoordinatesFromFlatIndex(index, shape) ==
  IF Len(shape) <= 1 THEN <<index>>
  ELSE LET stride == sizeFromShape(Tail(shape))
           coord == index \div stride
       IN <<coord>> \o getLogicalCoordinatesFromFlatIndex(index - coord * stride, Tail(shape))

\* ivec2 resTexRC = ivec2(resultUV.yx * vec2(nR, nC)); index = resTexRC.x * nC + resTexRC.y
resTexIndex(phys, p, nR, nC) == resultUVy(phys, p, nR) * nC + resultUVx(phys, p, nC)

getOutputScalarCoords == <<0>>

getOutputPacked1DCoords(shape, texShape, p) ==
  LET packedTexShape == PackedTexShape(texShape)
  IN IF packedTexShape[1] = 1
       THEN <<2 * resultUVx(packedTexShape, p, packedTexShape[2])>>
     ELSE IF packedTexShape[2] = 1
       THEN <<2 * resultUVy(packedTexShape, p, packedTexShape[1])>>
     ELSE <<resTexIndex(packedTexShape, p, packedTexShape[1], packedTexShape[2])>>

getOutputPacked1DCoordsCS(shape, texShape, p) ==
  LET packedTexShape == PackedTexShape(texShape)
  IN IF packedTexShape[1] = 1 THEN <<2 * p[1]>>
     ELSE IF packedTexShape[2] = 1 THEN <<2 * p[2]>>
     ELSE <<p[2] * packedTexShape[2] + p[1]>>

getOutput1DCoords(shape, texShape, p) ==
  IF texShape[1] = 1 THEN <<resultUVx(texShape, p, texShape[2])>>
  ELSE IF texShape[2] = 1 THEN <<resultUVy(texShape, p, texShape[1])>>
  ELSE <<resTexIndex(texShape, p, texShape[1], texShape[2])>>

getOutput1DCoordsCS(shape, texShape, p) ==
  IF texShape[1] = 1 THEN <<p[1]>>
  ELSE IF texShape[2] = 1 THEN <<p[2]>>
  ELSE <<p[2] * texShape[2] + p[1]>>

\* int b = index / texelsInBatch; index -= b * texelsInBatch;
\* int r = 2 * (index / texelsInLogicalRow); int c = imod(index, texelsInLogicalRow) * 2;
packedBRC(index, texelsInBatch, texelsInLogicalRow) ==
  LET b == index \div texelsInBatch
      rest == index - b * texelsInBatch
  IN <<b, 2 * (rest \div texelsInLogicalRow), imod(rest, texelsInLogicalRow) * 2>>

getOutputPacked3DCoords(shape, texShape, p) ==
  LET packedTexShape == PackedTexShape(texShape)
      texelsInLogicalRow == CeilDiv(shape[3], 2)
      texelsInBatch == texelsInLogicalRow * CeilDiv(shape[2], 2)
  IN packedBRC(resTexIndex(packedTexShape, p, packedTexShape[1], packedTexShape[2]),
               texelsInBatch, texelsInLogicalRow)

getOutputPacked3DCoordsCS(shape, texShape, p) ==
  LET packedTexShape == PackedTexShape(texShape)
      texelsInLogicalRow == CeilDiv(shape[3], 2)
      texelsInBatch == texelsInLogicalRow * CeilDiv(shape[2], 2)
  IN packedBRC(p[2] * packedTexShape[2] + p[1], texelsInBatch, texelsInLogicalRow)

getOutput3DCoords(shape, texShape, p) ==
  getLogicalCoordinatesFromFlatIndex(resTexIndex(texShape, p, texShape[1], texShape[2]), shape)

getOutput3DCoordsCS(shape, texShape, p) ==
  LET stride0 == shape[2] * shape[3]
      stride1 == shape[3]
      index == p[2] * texShape[2] + p[1]
      r == index \div stride0
      c == (index - r * stride0) \div stride1
      d == (index - r * stride0) - c * stride1
  IN <<r, c, d>>

\* texelsInBatchN of the outer batch axis i (1-based) of a packed rank >= 4 shape
RECURSIVE texelsInBatchN(_, _)
texelsInBatchN(shape, i) ==
  IF i >= Len(shape) - 2
    THEN CeilDiv(shape[Len(shape)], 2) * CeilDiv(shape[Len(shape) - 1], 2)
    ELSE shape[i + 1] * texelsInBatchN(shape, i + 1)

\* int b<k> = index / texelsInBatchN; index -= b<k> * texelsInBatchN;  (outermost first)
RECURSIVE packedBatches(_, _, _)
packedBatches(index, shape, i) ==
  IF i >= Len(shape) - 2
    THEN packedBRC(index, texelsInBatchN(shape, i), CeilDiv(shape[Len(shape)], 2))
    ELSE LET bk == index \div texelsInBatchN(shape, i)
         IN <<bk>> \o packedBatches(index - bk * texelsInBatchN(shape, i), shape, i + 1)

getOutputPackedNDCoords(shape, texShape, p) ==
  LET packedTexShape == PackedTexShape(texShape)
  IN packedBatches(resTexIndex(packedTexShape, p, packedTexShape[1], packedTexShape[2]), shape, 1)

getOutputPackedNDCoordsCS(shape, texShape, p) ==
  LET packedTexShape == PackedTexShape(texShape)
  IN packedBatches(p[2] * packedTexShape[2] + p[1], shape, 1)

getOutput4DCoords(shape, texShape, p) ==
  getLogicalCoordinatesFromFlatIndex(resTexIndex(texShape, p, texShape[1], texShape[2]), shape)

getOutput5DCoords(shape, texShape, p) ==
  getLogicalCoordinatesFromFlatIndex(resTexIndex(texShape, p, texShape[1], texShape[2]), shape)

getOutput6DCoords(shape, texShape, p) ==
  getLogicalCoordinatesFromFlatIndex(resTexIndex(texShape, p, texShape[1], texShape[2]), shape)

getOutputPacked2DCoords(shape, texShape, p) ==
  LET packedTexShape == PackedTexShape(texShape)
      texelsInLogicalRow == CeilDiv(shape[2], 2)
      index == resTexIndex(packedTexShape, p, packedTexShape[1], packedTexShape[2])
  IN IF shape = texShape
       THEN <<2 * resultUVy(packedTexShape, p, packedTexShape[1]),
              2 * resultUVx(packedTexShape, p, packedTexShape[2])>>
       ELSE <<2 * (index \div texelsInLogicalRow), imod(index, texelsInLogicalRow) * 2>>

getOutputPacked2DCoordsCS(shape, texShape, p) ==
  LET packedTexShape == PackedTexShape(texShape)
      texelsInLogicalRow == CeilDiv(shape[2], 2)
      index == p[2] * packedTexShape[2] + p[1]
  IN IF shape = texShape
       THEN <<2 * p[2], 2 * p[1]>>
       ELSE <<2 * (index \div texelsInLogicalRow), imod(index, texelsInLogicalRow) * 2>>

getOutput4DCoordsCS(shape, texShape, p) ==
  LET stride2 == shape[4]
      stride1 == shape[3] * stride2
      stride0 == shape[2] * stride1
      index == p[2] * texShape[2] + p[1]
      r == index \div stride0
      i1 == index - r * stride0
      c == i1 \div stride1
      i2 == i1 - c * stride1
      d == i2 \div stride2
      d2 == i2 - d * stride2
  IN <<r, c, d, d2>>

getOutput2DCoords(shape, texShape, p) ==
  LET index == resTexIndex(texShape, p, texShape[1], texShape[2])
      r == index \div shape[2]
  IN IF shape = texShape
       THEN <<resultUVy(texShape, p, texShape[1]), resultUVx(texShape, p, texShape[2])>>
     ELSE IF shape[2] = 1 THEN <<index, 0>>
     ELSE IF shape[1] = 1 THEN <<0, index>>
     ELSE <<r, index - r * shape[2]>>

getOutput2DCoordsCS(shape, texShape, p) ==
  LET index == p[2] * texShape[2] + p[1]
      r == index \div shape[2]
  IN IF shape = texShape THEN <<p[2], p[1]>>
     ELSE IF shape[2] = 1 THEN <<index, 0>>
     ELSE IF shape[1] = 1 THEN <<0, index>>
     ELSE <<r, index - r * shape[2]>>

\* result of a decoder whose source does not compile (reads an undeclared name)
UndeclaredCoords == <<-1>>
\* the emitter throws '<rank>-D output sampling is not yet supported'
ThrowsCoords == <<-3>>

getPackedOutputSamplingSnippet(outShape, outTexShape, p) ==
  CASE Len(outShape) = 0 -> getOutputScalarCoords
    [] Len(outShape) = 1 -> getOutputPacked1DCoords(outShape, outTexShape, p)
    [] Len(outShape) = 2 -> getOutputPacked2DCoords(outShape, outTexShape, p)
    [] Len(outShape) = 3 -> getOutputPacked3DCoords(outShape, outTexShape, p)
    [] OTHER -> getOutputPackedNDCoords(outShape, outTexShape, p)

getPackedOutputSamplingSnippetCS(outShape, outTexShape, p) ==
  CASE Len(outShape) = 0 -> getOutputScalarCoords
    [] Len(outShape) = 1 -> getOutputPacked1DCoordsCS(outShape, outTexShape, p)
    [] Len(outShape) = 2 -> getOutputPacked2DCoordsCS(outShape, outTexShape, p)
    [] Len(outShape) = 3 -> getOutputPacked3DCoordsCS(outShape, outTexShape, p)
    [] OTHER -> getOutputPackedNDCoordsCS(outShape, outTexShape, p)

getOutputSamplingSnippet(outShape, outTexShape, p) ==
  CASE Len(outShape) = 0 -> getOutputScalarCoords
    [] Len(outShape) = 1 -> getOutput1DCoords(outShape, outTexShape, p)
    [] Len(outShape) = 2 -> getOutput2DCoords(outShape, outTexShape, p)
    [] Len(outShape) = 3 -> getOutput3DCoords(outShape, outTexShape, p)
    [] Len(outShape) = 4 -> getOutput4DCoords(outShape, outTexShape, p)
    [] Len(outShape) = 5 -> getOutput5DCoords(outShape, outTexShape, p)
    [] Len(outShape) = 6 -> getOutput6DCoords(outShape, outTexShape, p)
    [] OTHER -> ThrowsCoords

\* ranks 5 and 6 reuse the sampling-mode decoders, whose body reads resultUV;
\* the compute-shader prefix declares no resultUV
getOutputSamplingSnippetCS(outShape, outTexShape, p) ==
  CASE Len(outShape) = 0 -> getOutputScalarCoords
    [] Len(outShape) = 1 -> getOutput1DCoordsCS(outShape, outTexShape, p)
    [] Len(outShape) = 2 -> getOutput2DCoordsCS(outShape, outTexShape, p)
    [] Len(outShape) = 3 -> getOutput3DCoordsCS(outShape, outTexShape, p)
    [] Len(outShape) = 4 -> getOutput4DCoordsCS(outShape, outTexShape, p)
    [] Len(outShape) \in {5, 6} -> UndeclaredCoords
    [] OTHER -> ThrowsCoords

-----------------------------------------------------------------------------
(* Input accessors, unpacked layout: the texel get<Name>(c) reads.          *)
(* inInfo = [logicalShape, texShape, isUniform, isPacked, flatOffset].      *)

RECURSIVE getSamplerFromInInfo(_, _)
RECURSIVE getSamplerFromInInfoCS(_, _)

getSamplerScalar(inInfo, c) ==
  LET texShape == inInfo.texShape
  IN IF inInfo.isUniform THEN UniformElem(0)
     ELSE IF texShape[1] = 1 /\ texShape[2] = 1 THEN texture2D(texShape, halfCR)
     ELSE texture2D(texShape, uvFromFlat(texShape[1], texShape[2], offsetOf(inInfo)))

getSamplerScalarCS(inInfo, c) ==
  LET texShape == inInfo.texShape
  IN IF inInfo.isUniform THEN UniformElem(0)
     ELSE IF texShape[1] = 1 /\ texShape[2] = 1 THEN <<0, 0>>
     ELSE uvFromFlatCS(texShape[1], texShape[2], offsetOf(inInfo))

getSampler1D(inInfo, c) ==
  LET tNumR == inInfo.texShape[1]
      tNumC == inInfo.texShape[2]
      index == c[1]
      offset == offsetOf(inInfo)
  IN IF inInfo.isUniform THEN UniformElem(index)
     ELSE IF tNumC = 1 /\ tNumR = 1 THEN texture2D(inInfo.texShape, halfCR)
     ELSE IF tNumC = 1
       THEN texture2D(inInfo.texShape, <<1, 2, 2 * (index + offset) + 1, 2 * tNumR>>)
     ELSE IF tNumR = 1
       THEN texture2D(inInfo.texShape, <<2 * (index + offset) + 1, 2 * tNumC, 1, 2>>)
     ELSE texture2D(inInfo.texShape, uvFromFlat(tNumR, tNumC, index + offset))

getSampler1DCS(inInfo, c) ==
  LET tNumR == inInfo.texShape[1]
      tNumC == inInfo.texShape[2]
      index == c[1]
      offset == offsetOf(inInfo)
  IN IF inInfo.isUniform THEN UniformElem(index)
     ELSE IF tNumC = 1 /\ tNumR = 1 THEN <<0, 0>>
     ELSE IF tNumC = 1 THEN <<0, index + offset>>
     ELSE IF tNumR = 1 THEN <<index + offset, 0>>
     ELSE uvFromFlatCS(tNumR, tNumC, index + offset)

getSampler2D(inInfo, c) ==
  LET shape == inInfo.logicalShape
      texShape == inInfo.texShape
      texNumR == texShape[1]
      texNumC == texShape[2]
      row == c[1]
      col == c[2]
      sq == squeezeShape(shape)
      offset == offsetOf(inInfo)
      index == row * shape[2] + col + offset
  IN IF shape = texShape
       THEN texture2D(texShape, centerUV(col, row, texNumC, texNumR))
     ELSE IF Len(sq.newShape) < Len(shape)
       THEN getSamplerFromInInfo(squeezeInputInfo(inInfo, sq.newShape),
                                 getSqueezedParams(c, sq.keptDims))
     ELSE IF inInfo.isUniform THEN UniformElem(row * shape[2] + col)
     ELSE IF texNumC = 1
       THEN texture2D(texShape, <<1, 2, 2 * index + 1, 2 * texNumR>>)
     ELSE IF texNumR = 1
       THEN texture2D(texShape, <<2 * index + 1, 2 * texNumC, 1, 2>>)
     ELSE texture2D(texShape, uvFromFlat(texNumR, texNumC, index))

getSampler2DCS(inInfo, c) ==
  LET shape == inInfo.logicalShape
      texShape == inInfo.texShape
      texNumR == texShape[1]
      texNumC == texShape[2]
      row == c[1]
      col == c[2]
      sq == squeezeShape(shape)
      offset == offsetOf(inInfo)
      index == row * shape[2] + col + offset
  IN IF shape = texShape THEN <<col, row>>
     ELSE IF Len(sq.newShape) < Len(shape)
       THEN getSamplerFromInInfoCS(squeezeInputInfo(inInfo, sq.newShape),
                                   getSqueezedParams(c, sq.keptDims))
     ELSE IF inInfo.isUniform THEN UniformElem(row * shape[2] + col)
     ELSE IF texNumC = 1 THEN <<0, index>>
     ELSE IF texNumR = 1 THEN <<index, 0>>
     ELSE uvFromFlatCS(texNumR, texNumC, index)

getSampler3D(inInfo, c) ==
  LET shape == inInfo.logicalShape
      texShape == inInfo.texShape
      texNumR == texShape[1]
      texNumC == texShape[2]
      stride0 == shape[2] * shape[3]
      stride1 == shape[3]
      row == c[1]
      col == c[2]
      depth == c[3]
      sq == squeezeShape(shape)
      flatOffset == inInfo.flatOffset
  IN IF Len(sq.newShape) < Len(shape)
       THEN getSamplerFromInInfo(squeezeInputInfo(inInfo, sq.newShape),
                                 getSqueezedParams(c, sq.keptDims))
     ELSE IF inInfo.isUniform THEN UniformElem(row * stride0 + col * stride1 + depth)
     ELSE IF texNumC = stride0 /\ flatOffset = Null
       THEN texture2D(texShape, centerUV(col * stride1 + depth, row, texNumC, texNumR))
     ELSE IF texNumC = stride1 /\ flatOffset = Null
       THEN texture2D(texShape, centerUV(depth, row * shape[2] + col, texNumC, texNumR))
     ELSE texture2D(texShape, uvFromFlat(texNumR, texNumC,
                      row * stride0 + col * stride1 + depth + offsetOf(inInfo)))

\* the last return calls UVfrom3D, which no prefix snippet defines
getSampler3DCS(inInfo, c) ==
  LET shape == inInfo.logicalShape
      texShape == inInfo.texShape
      texNumC == texShape[2]
      stride0 == shape[2] * shape[3]
      stride1 == shape[3]
      row == c[1]
      col == c[2]
      depth == c[3]
      sq == squeezeShape(shape)
  IN IF Len(sq.newShape) < Len(shape)
       THEN getSamplerFromInInfoCS(squeezeInputInfo(inInfo, sq.newShape),
                                   getSqueezedParams(c, sq.keptDims))
     ELSE IF texNumC = stride0 THEN <<col * stride1 + depth, row>>
     ELSE IF texNumC = stride1 THEN <<depth, row * shape[2] + col>>
     ELSE Undeclared

getSampler4D(inInfo, c) ==
  LET shape == inInfo.logicalShape
      texShape == inInfo.texShape
      texNumR == texShape[1]
      texNumC == texShape[2]
      stride2 == shape[4]
      stride1 == shape[3] * stride2
      stride0 == shape[2] * stride1
      row == c[1]
      col == c[2]
      depth == c[3]
      depth2 == c[4]
      sq == squeezeShape(shape)
      flatOffset == inInfo.flatOffset
      index == row * stride0 + col * stride1 + depth * stride2 + depth2
  IN IF Len(sq.newShape) < Len(shape)
       THEN getSamplerFromInInfo(squeezeInputInfo(inInfo, sq.newShape),
                                 getSqueezedParams(c, sq.keptDims))
     ELSE IF inInfo.isUniform THEN UniformElem(index)
     ELSE IF texNumC = stride0 /\ flatOffset = Null
       THEN texture2D(texShape,
              centerUV(col * stride1 + depth * stride2 + depth2, row, texNumC, texNumR))
     ELSE IF texNumC = stride2 /\ flatOffset = Null
       THEN texture2D(texShape,
              centerUV(depth2, row * (shape[2] * shape[3]) + col * shape[3] + depth,
                       texNumC, texNumR))
     ELSE texture2D(texShape, uvFromFlat(texNumR, texNumC, index + offsetOf(inInfo)))

\* the last return calls UVfrom4D, which no prefix snippet defines
getSampler4DCS(inInfo, c) ==
  LET shape == inInfo.logicalShape
      texShape == inInfo.texShape
      texNumC == texShape[2]
      stride2 == shape[4]
      stride1 == shape[3] * stride2
      stride0 == shape[2] * stride1
      row == c[1]
      col == c[2]
      depth == c[3]
      depth2 == c[4]
      sq == squeezeShape(shape)
  IN IF Len(sq.newShape) < Len(shape)
       THEN getSamplerFromInInfoCS(squeezeInputInfo(inInfo, sq.newShape),
                                   getSqueezedParams(c, sq.keptDims))
     ELSE IF texNumC = stride0
       THEN <<col * stride1 + depth * stride2 + depth2, row>>
     ELSE IF texNumC = stride2
       THEN <<depth2, row * (shape[2] * shape[3]) + col * shape[3] + depth>>
     ELSE Undeclared

getSampler5D(inInfo, c) ==
  LET shape == inInfo.logicalShape
      texShape == inInfo.texShape
      texNumR == texShape[1]
      texNumC == texShape[2]
      stride3 == shape[5]
      stride2 == shape[4] * stride3
      stride1 == shape[3] * stride2
      stride0 == shape[2] * stride1
      row == c[1]
      col == c[2]
      depth == c[3]
      depth2 == c[4]
      depth3 == c[5]
      sq == squeezeShape(shape)
      flatOffset == inInfo.flatOffset
      index == row * stride0 + col * stride1 + depth * stride2 + depth2 * stride3 + depth3
  IN IF Len(sq.newShape) < Len(shape)
       THEN getSamplerFromInInfo(squeezeInputInfo(inInfo, sq.newShape),
                                 getSqueezedParams(c, sq.keptDims))
     ELSE IF inInfo.isUniform THEN UniformElem(index)
     ELSE IF texNumC = stride0 /\ flatOffset = Null
       THEN texture2D(texShape,
              centerUV(col * stride1 + depth * stride2 + depth2 * stride3 + depth3, row,
                       texNumC, texNumR))
     ELSE IF texNumC = stride3 /\ flatOffset = Null
       THEN texture2D(texShape,
              centerUV(depth3,
                       row * (shape[2] * shape[3] * shape[4]) + col * (shape[3] * shape[4])
                         + depth * shape[4] + depth2,
                       texNumC, texNumR))
     ELSE texture2D(texShape, uvFromFlat(texNumR, texNumC, index + offsetOf(inInfo)))

getSampler6D(inInfo, c) ==
  LET shape == inInfo.logicalShape
      texShape == inInfo.texShape
      texNumR == texShape[1]
      texNumC == texShape[2]
      stride4 == shape[6]
      stride3 == shape[5] * stride4
      stride2 == shape[4] * stride3
      stride1 == shape[3] * stride2
      stride0 == shape[2] * stride1
      row == c[1]
      col == c[2]
      depth == c[3]
      depth2 == c[4]
      depth3 == c[5]
      depth4 == c[6]
      sq == squeezeShape(shape)
      flatOffset == inInfo.flatOffset
      index == row * stride0 + col * stride1 + depth * stride2 + depth2 * stride3
                 + depth3 * stride4 + depth4
  IN IF Len(sq.newShape) < Len(shape)
       THEN getSamplerFromInInfo(squeezeInputInfo(inInfo, sq.newShape),
                                 getSqueezedParams(c, sq.keptDims))
     ELSE IF inInfo.isUniform THEN UniformElem(index)
     ELSE IF texNumC = stride0 /\ flatOffset = Null
       THEN texture2D(texShape,
              centerUV(col * stride1 + depth * stride2 + depth2 * stride3
                         + depth3 * stride4 + depth4, row, texNumC, texNumR))
     ELSE IF texNumC = stride4 /\ flatOffset = Null
       THEN texture2D(texShape,
              centerUV(depth4,
                       row * (shape[2] * shape[3] * shape[4] * shape[5])
                         + col * (shape[3] * shape[4] * shape[5])
                         + depth * (shape[4] * shape[5]) + depth2 * shape[5] + depth3,
                       texNumC, texNumR))
     ELSE texture2D(texShape, uvFromFlat(texNumR, texNumC, index + offsetOf(inInfo)))

getSamplerFromInInfo(inInfo, c) ==
  CASE Len(inInfo.logicalShape) = 0 -> getSamplerScalar(inInfo, c)
    [] Len(inInfo.logicalShape) = 1 -> getSampler1D(inInfo, c)
    [] Len(inInfo.logicalShape) = 2 -> getSampler2D(inInfo, c)
    [] Len(inInfo.logicalShape) = 3 -> getSampler3D(inInfo, c)
    [] Len(inInfo.logicalShape) = 4 -> getSampler4D(inInfo, c)
    [] Len(inInfo.logicalShape) = 5 -> getSampler5D(inInfo, c)
    [] Len(inInfo.logicalShape) = 6 -> getSampler6D(inInfo, c)
    [] OTHER -> Throws

getSamplerFromInInfoCS(inInfo, c) ==
  CASE Len(inInfo.logicalShape) = 0 -> getSamplerScalarCS(inInfo, c)
    [] Len(inInfo.logicalShape) = 1 -> getSampler1DCS(inInfo, c)
    [] Len(inInfo.logicalShape) = 2 -> getSampler2DCS(inInfo, c)
    [] Len(inInfo.logicalShape) = 3 -> getSampler3DCS(inInfo, c)
    [] Len(inInfo.logicalShape) = 4 -> getSampler4DCS(inInfo, c)
    [] OTHER -> Throws

-----------------------------------------------------------------------------
(* Input accessors, packed layout: the texel get<Name>(c) reads.  The       *)
(* indexed-mode accessors of rank 2 and 3 are defined with the index-math   *)
(* helpers above.                                                           *)

getPackedSamplerScalar(texShape) == texture2D(PackedTexShape(texShape), halfCR)

getPackedSamplerScalarCS(texShape) == <<0, 0>>

getPackedSampler1D(texShape, index) ==
  LET packedTexShape == PackedTexShape(texShape)
  IN texture2D(packedTexShape, packedUVfrom1D(packedTexShape[1], packedTexShape[2], index))

getPackedSampler1DCS(texShape, index) ==
  LET packedTexShape == PackedTexShape(texShape)
  IN packedUVfrom1DCS(packedTexShape[1], packedTexShape[2], index)

getPackedSampler2D(shape, texShape, row, col) ==
  LET texNumR == texShape[1]
      texNumC == texShape[2]
      packedTexShape == PackedTexShape(texShape)
      valuesPerRow == CeilDiv(shape[2], 2)
  IN IF shape = texShape
       THEN texture2D(packedTexShape, centerUV(col, row, texNumC, texNumR))
       ELSE texture2D(packedTexShape,
              packedUVfrom2D(valuesPerRow, packedTexShape[1], packedTexShape[2], row, col))

getPackedSampler3D(shape, texShape, b, row, col) ==
  LET packedTexShape == PackedTexShape(texShape)
      texNumR == packedTexShape[1]
      texNumC == packedTexShape[2]
      valuesPerRow == CeilDiv(shape[3], 2)
      texelsInBatch == valuesPerRow * CeilDiv(shape[2], 2)
  IN IF shape[1] = 1
       THEN getPackedSampler2D(<<shape[2], shape[3]>>, texShape, row, col)
       ELSE texture2D(packedTexShape,
              packedUVfrom3D(texNumR, texNumC, texelsInBatch, valuesPerRow, b, row, col))

\* int index = b<k> * texelsInBatchN + ... + b * texelsInBatch
\*             + (row / 2) * valuesPerRow + (col / 2);
RECURSIVE packedIndexND(_, _, _)
packedIndexND(shape, c, i) ==
  IF i > Len(shape) - 2
    THEN (c[Len(shape) - 1] \div 2) * CeilDiv(shape[Len(shape)], 2) + (c[Len(shape)] \div 2)
    ELSE c[i] * texelsInBatchN(shape, i) + packedIndexND(shape, c, i + 1)

getPackedSamplerND(shape, texShape, c) ==
  LET packedTexShape == PackedTexShape(texShape)
      texNumR == packedTexShape[1]
      texNumC == packedTexShape[2]
      index == packedIndexND(shape, c, 1)
      texR == index \div texNumC
      texC == index - texR * texNumC
  IN texture2D(packedTexShape, centerUV(texC, texR, texNumC, texNumR))

getPackedSamplerNDCS(shape, texShape, c) ==
  LET packedTexShape == PackedTexShape(texShape)
      texNumC == packedTexShape[2]
      index == packedIndexND(shape, c, 1)
      texR == index \div texNumC
      texC == index - texR * texNumC
  IN <<texC, texR>>

getPackedSamplerFromInInfo(inInfo, c) ==
  CASE Len(inInfo.logicalShape) = 0 -> getPackedSamplerScalar(inInfo.texShape)
    [] Len(inInfo.logicalShape) = 1 -> getPackedSampler1D(inInfo.texShape, c[1])
    [] Len(inInfo.logicalShape) = 2 ->
         getPackedSampler2D(inInfo.logicalShape, inInfo.texShape, c[1], c[2])
    [] Len(inInfo.logicalShape) = 3 ->
         getPackedSampler3D(inInfo.logicalShape, inInfo.texShape, c[1], c[2], c[3])
    [] OTHER -> getPackedSamplerND(inInfo.logicalShape, inInfo.texShape, c)

getPackedSamplerFromInInfoCS(inInfo, c) ==
  CASE Len(inInfo.logicalShape) = 0 -> getPackedSamplerScalarCS(inInfo.texShape)
    [] Len(inInfo.logicalShape) = 1 -> getPackedSampler1DCS(inInfo.texShape, c[1])
    [] Len(inInfo.logicalShape) = 2 ->
         getPackedSampler2DCS(inInfo.logicalShape, inInfo.texShape, c[1], c[2])
    [] Len(inInfo.logicalShape) = 3 ->
         getPackedSampler3DCS(inInfo.logicalShape, inInfo.texShape, c[1], c[2], c[3])
    [] OTHER -> getPackedSamplerNDCS(inInfo.logicalShape, inInfo.texShape, c)

-----------------------------------------------------------------------------
(* Coordinate queries: one tensor description (ShapeInfo) together with     *)
(* either a logical coordinate that a kernel reads through get<Name>, or a  *)
(* texel of the tensor's texture for which a kernel invocation runs.        *)

MaxDim == 3      \* largest axis size
MaxSize == 8     \* largest number of elements
MaxRank == 6     \* largest rank the emitters have a case for

\* vectors and matrices take any axis size up to MaxSize
ShapesOfRank(r) ==
  {s \in [1..r -> 1..(IF r <= 2 THEN MaxSize ELSE MaxDim)] : sizeFromShape(s) <= MaxSize}

\* every small shape, and the shapes [2, ..., 2] that have no axis to squeeze
Shapes == UNION {ShapesOfRank(r) : r \in 0..MaxRank}
            \cup {[i \in 1..r |-> 2] : r \in 1..MaxRank}

RECURSIVE CoordsOf(_)
CoordsOf(shape) ==
  IF shape = << >> THEN {<< >>}
  ELSE {<<h>> \o t : h \in 0..(Head(shape) - 1), t \in CoordsOf(Tail(shape))}

\* number of texels a packed tensor needs: batches x ceil(rows/2) x ceil(cols/2)
PackedTexels(shape) ==
  CASE Len(shape) = 0 -> 1
    [] Len(shape) = 1 -> CeilDiv(shape[1], 2)
    [] OTHER -> sizeFromShape(SubSeq(shape, 1, Len(shape) - 2))
                  * CeilDiv(shape[Len(shape) - 1], 2) * CeilDiv(shape[Len(shape)], 2)

\* storage shapes: unpacked, one value per texel in row-major order with less
\* than one row of slack; packed, even in both axes (in value units)
TexShapesOf(isPacked, shape) ==
  IF isPacked
    THEN IF shape = << >> THEN {<<1, 1>>}
         ELSE {<<2 * CeilDiv(PackedTexels(shape), tc), 2 * tc>> : tc \in 1..PackedTexels(shape)}
    ELSE {<<CeilDiv(sizeFromShape(shape), tc), tc>> : tc \in 1..sizeFromShape(shape)}

ShapeInfo(isPacked, shape, texShape) ==
  [logicalShape |-> shape, texShape |-> texShape, isUniform |-> FALSE,
   isPacked |-> isPacked, flatOffset |-> Null]

TexelsOf(isPacked, texShape) ==
  (0..(PhysShape(isPacked, texShape)[2] - 1)) \X (0..(PhysShape(isPacked, texShape)[1] - 1))

CoordQuery(pk, sh, ts, c) == [kind |-> "coord", info |-> ShapeInfo(pk, sh, ts), c |-> c, p |-> <<0, 0>>]
TexelQuery(pk, sh, ts, p) == [kind |-> "texel", info |-> ShapeInfo(pk, sh, ts), c |-> << >>, p |-> p]

CoInit ==
  /\ MMIdle /\ AsmIdle /\ ConvIdle
  /\ \E pk \in BOOLEAN, sh \in Shapes :
       \E ts \in TexShapesOf(pk, sh) :
          \/ \E c \in CoordsOf(sh) : cq = CoordQuery(pk, sh, ts, c)
          \/ \E p \in TexelsOf(pk, ts) : cq = TexelQuery(pk, sh, ts, p)
  /\ cpc = "start"
  /\ uvS = << >> /\ uvI = << >> /\ backS = << >> /\ backI = << >>
  /\ bq = [mode |-> "none"] /\ binv = 0 /\ reads = << >>

\* get<Name>(c) in a fragment shader assembled by makeShader
SampleInput ==
  /\ cpc = "start" /\ cq.kind = "coord"
  /\ uvS' = IF cq.info.isPacked THEN getPackedSamplerFromInInfo(cq.info, cq.c)
                                ELSE getSamplerFromInInfo(cq.info, cq.c)
  /\ cpc' = "fetchedS"
  /\ UNCHANGED <<mmvars, othervars, cq, uvI, backS, backI, bq, binv, reads>>

\* get<Name>(c) in a compute shader assembled by makeCSShader
FetchInput ==
  /\ cpc = "fetchedS"
  /\ uvI' = IF cq.info.isPacked THEN getPackedSamplerFromInInfoCS(cq.info, cq.c)
                                ELSE getSamplerFromInInfoCS(cq.info, cq.c)
  /\ cpc' = "fetched"
  /\ UNCHANGED <<mmvars, othervars, cq, uvS, backS, backI, bq, binv, reads>>

\* the GPU runs the invocation of texel p (fragment at p / global invocation p)
Rasterize ==
  /\ cpc = "start" /\ cq.kind = "texel"
  /\ uvS' = cq.p /\ uvI' = cq.p
  /\ cpc' = "fetched"
  /\ UNCHANGED <<mmvars, othervars, cq, backS, backI, bq, binv, reads>>

\* getOutputCoords() of the fragment shader at texel uvS
DecodeSampling ==
  /\ cpc = "fetched"
  /\ backS' = IF uvS[1] < 0 THEN UndeclaredCoords
              ELSE IF cq.info.isPacked
                THEN getPackedOutputSamplingSnippet(cq.info.logicalShape, cq.info.texShape, uvS)
                ELSE getOutputSamplingSnippet(cq.info.logicalShape, cq.info.texShape, uvS)
  /\ cpc' = "decodedS"
  /\ UNCHANGED <<mmvars, othervars, cq, uvS, uvI, backI, bq, binv, reads>>

\* getOutputCoords() of the compute shader at global invocation uvI
DecodeIndexed ==
  /\ cpc = "decodedS"
  /\ backI' = IF uvI[1] < 0 THEN UndeclaredCoords
              ELSE IF cq.info.isPacked
                THEN getPackedOutputSamplingSnippetCS(cq.info.logicalShape, cq.info.texShape, uvI)
                ELSE getOutputSamplingSnippetCS(cq.info.logicalShape, cq.info.texShape, uvI)
  /\ cpc' = "done"
  /\ UNCHANGED <<mmvars, othervars, cq, uvS, uvI, backS, bq, binv, reads>>

CoNext == SampleInput \/ FetchInput \/ Rasterize \/ DecodeSampling \/ DecodeIndexed

SpecCoord == CoInit /\ [][CoNext]_vars

-----------------------------------------------------------------------------
\* the coordinate a decoder must return for the texel that holds c: c itself,
\* in packed layout the top-left coordinate of the 2x2 block containing c
BlockTopLeft(isPacked, c) ==
  IF c = << >> THEN <<0>>
  ELSE IF ~isPacked THEN c
  ELSE [i \in 1..Len(c) |-> IF i >= Len(c) - 1 THEN 2 * (c[i] \div 2) ELSE c[i]]

\* the indexed-mode emitters have a case for the rank of the query
IndexedSupported == cq.info.isPacked \/ Len(cq.info.logicalShape) <= 4

\* C6: for every supported rank, packed or unpacked, the output decoder applied
\* to the texel the input accessor addresses for coordinate c returns c (packed:
\* the top-left coordinate of the 2x2 block containing c), in both access modes
C6_RoundTrip ==
  (cq.kind = "coord" /\ cpc = "done") =>
     /\ backS = BlockTopLeft(cq.info.isPacked, cq.c)
     /\ IndexedSupported => backI = BlockTopLeft(cq.info.isPacked, cq.c)

\* C7: for a packed rank-1 output the decoder returns twice the texel index,
\* 2 * (texelRow * packedCols + texelCol), at every texel of every storage shape
C7_Packed1DDecoderDoubles ==
  (cq.kind = "texel" /\ cpc = "done" /\ cq.info.isPacked /\ Len(cq.info.logicalShape) = 1) =>
     LET twice == 2 * (cq.p[2] * PackedTexShape(cq.info.texShape)[2] + cq.p[1])
     IN backS = <<twice>> /\ backI = <<twice>>

\* C8: the indexed-mode accessor addresses the texel whose centre the
\* sampling-mode accessor addresses, for every description and coordinate
C8_ModesAddressSameTexel ==
  (cq.kind = "coord" /\ cpc \in {"fetched", "decodedS", "done"}) => uvS = uvI

-----------------------------------------------------------------------------
(* get<Name>AtOutCoords: an input read at the coordinates of the output.    *)
(* The value of one invocation is described by the texel it reads (uv) and, *)
(* per returned channel, the channel of that texel it carries (1..4 = .x .y *)
(* .z .w, 0 = the constant 0.).                                             *)

\* ops/broadcast_util.getBroadcastDims: the axes of the input (1-based) that
\* have size 1 where the rightmost-aligned output axis is larger
getBroadcastDims(inShape, outShape) ==
  {d \in 1..Len(inShape) : inShape[d] = 1 /\ outShape[d + Len(outShape) - Len(inShape)] > 1}

\* coordsSnippet: 'coords = 0;' or 'coords.<field of d + rankDiff> = 0;' per d
zeroBroadcastCoords(inShape, outShape, coords) ==
  LET inRank == Len(inShape)
      outRank == Len(outShape)
      broadcastDims == getBroadcastDims(inShape, outShape)
      rankDiff == outRank - inRank
  IN IF inRank = 0 THEN coords
     ELSE IF outRank < 2 /\ Cardinality(broadcastDims) >= 1 THEN <<0>>
     ELSE [i \in 1..Len(coords) |-> IF (i - rankDiff) \in broadcastDims THEN 0 ELSE coords[i]]

\* unpackedCoordsSnippet: 'coords' or the fields i + rankDiff of coords
unpackedCoords(inShape, outShape, coords) ==
  LET inRank == Len(inShape)
      outRank == Len(outShape)
      rankDiff == outRank - inRank
  IN IF outRank < 2 /\ inRank > 0 THEN coords
     ELSE [i \in 1..inRank |-> coords[i + rankDiff]]

identityLanes == <<1, 2, 3, 4>>
scalarLane == <<1>>
xxxx == <<1, 1, 1, 1>>
xx00 == <<1, 1, 0, 0>>

\* the 'output' statement without its rank-0 cases
packedOutputSwizzle_NoScalarCase(inShape, outShape) ==
  LET inRank == Len(inShape)
      outRank == Len(outShape)
      broadcastDims == getBroadcastDims(inShape, outShape)
      rows == inRank - 1
      cols == inRank
  IN IF inRank = 1 /\ outRank > 1 THEN xyxy
     ELSE IF broadcastDims # {} /\ inRank # 0
       THEN IF rows \in broadcastDims /\ cols \in broadcastDims THEN xxxx
            ELSE IF rows \in broadcastDims THEN xyxy
            ELSE IF cols \in broadcastDims THEN xxzz
            ELSE identityLanes
     ELSE identityLanes

\* the 'output' statement of getPackedSamplerAtOutputCoords
packedOutputSwizzle(inShape, outShape) ==
  LET inRank == Len(inShape)
      outRank == Len(outShape)
      broadcastDims == getBroadcastDims(inShape, outShape)
      rows == inRank - 1
      cols == inRank
  IN IF inRank = 1 /\ outRank > 1 THEN xyxy
     ELSE IF inRank = 0 /\ outRank > 0
       THEN IF outRank = 1 THEN xx00 ELSE xxxx
     ELSE IF broadcastDims # {}
       THEN IF rows \in broadcastDims /\ cols \in broadcastDims THEN xxxx
            ELSE IF rows \in broadcastDims THEN xyxy
            ELSE IF cols \in broadcastDims THEN xxzz
            ELSE identityLanes
     ELSE identityLanes

\* cs: assembled by makeCSShader (indexed decoder and accessor)
getPackedSamplerAtOutputCoords(inInfo, outShapeInfo, p, cs) ==
  LET inShape == inInfo.logicalShape
      outShape == outShapeInfo.logicalShape
      coords == IF cs
                  THEN getPackedOutputSamplingSnippetCS(outShape, outShapeInfo.texShape, p)
                  ELSE getPackedOutputSamplingSnippet(outShape, outShapeInfo.texShape, p)
      args == unpackedCoords(inShape, outShape, zeroBroadcastCoords(inShape, outShape, coords))
  IN [uv |-> IF cs THEN getPackedSamplerFromInInfoCS(inInfo, args)
                   ELSE getPackedSamplerFromInInfo(inInfo, args),
      lanes |-> packedOutputSwizzle(inShape, outShape)]

getSamplerAtOutputCoords(inInfo, outShapeInfo, p) ==
  LET inShape == inInfo.logicalShape
      outShape == outShapeInfo.logicalShape
      outTexShape == outShapeInfo.texShape
      inTexShape == inInfo.texShape
      coords == getOutputSamplingSnippet(outShape, outTexShape, p)
      args == unpackedCoords(inShape, outShape, zeroBroadcastCoords(inShape, outShape, coords))
  IN IF ~inInfo.isUniform /\ Len(inShape) = Len(outShape) /\ inInfo.flatOffset = Null
          /\ inTexShape = outTexShape
       THEN [uv |-> texture2D(inTexShape, resultUV(outTexShape, p)), lanes |-> scalarLane]
       ELSE [uv |-> getSamplerFromInInfo(inInfo, args), lanes |-> scalarLane]

getSamplerAtOutputCoordsCS(inInfo, outShapeInfo, p) ==
  LET inShape == inInfo.logicalShape
      outShape == outShapeInfo.logicalShape
      outTexShape == outShapeInfo.texShape
      inTexShape == inInfo.texShape
      index == p[2] * outTexShape[2] + p[1]
      texR == index \div inTexShape[2]
      texC == index - texR * inTexShape[2]
  IN IF ~inInfo.isUniform /\ Len(inShape) = Len(outShape) /\ inInfo.flatOffset = Null
          /\ inTexShape = outTexShape
       THEN [uv |-> p, lanes |-> scalarLane]
       ELSE [uv |-> <<texC, texR>>, lanes |-> scalarLane]

-----------------------------------------------------------------------------
(* Broadcast queries: a kernel with one input whose shape broadcasts to the *)
(* output shape; the invocations of the output texels run one after the     *)
(* other and each calls get<Name>AtOutCoords().                             *)

MaxOutRank == 4   \* largest output rank the indexed-mode decoders cover

OutShapes == {s \in Shapes : Len(s) <= MaxOutRank}

\* the shapes that broadcast to outShape: a suffix of its axes, some set to 1
InShapesOf(outShape) ==
  UNION {{s \in [1..r -> 1..MaxSize] :
            \A i \in 1..r : s[i] \in {1, outShape[i + Len(outShape) - r]}}
         : r \in 0..Len(outShape)}

\* the output texel the k-th invocation (k = 0, 1, ...) runs for
TexelNo(phys, k) == <<k % phys[2], k \div phys[2]>>

NumTexels(phys) == phys[1] * phys[2]

BcInit ==
  /\ MMIdle /\ AsmIdle /\ ConvIdle
  /\ cq = [kind |-> "none"] /\ cpc = "idle"
  /\ uvS = << >> /\ uvI = << >> /\ backS = << >> /\ backI = << >>
  /\ \E pk \in BOOLEAN, cs \in BOOLEAN, osh \in OutShapes :
       \E ish \in InShapesOf(osh) :
          \E ots \in TexShapesOf(pk, osh), its \in TexShapesOf(pk, ish) :
             bq = [mode |-> IF pk THEN "packed" ELSE IF cs THEN "indexed" ELSE "sampling",
                   cs |-> cs,
                   inInfo |-> ShapeInfo(pk, ish, its),
                   outInfo |-> ShapeInfo(pk, osh, ots)]
  /\ binv = 0 /\ reads = << >>

OutPhys == PhysShape(bq.outInfo.isPacked, bq.outInfo.texShape)

\* fragment shader of makeShader, unpacked
InvokeSampling ==
  /\ bq.mode = "sampling" /\ binv < NumTexels(OutPhys)
  /\ LET p == TexelNo(OutPhys, binv)
         r == getSamplerAtOutputCoords(bq.inInfo, bq.outInfo, p)
     IN reads' = Append(reads,
                   [coords |-> getOutputSamplingSnippet(bq.outInfo.logicalShape,
                                                         bq.outInfo.texShape, p),
                    uv |-> r.uv, lanes |-> r.lanes])
  /\ binv' = binv + 1
  /\ UNCHANGED <<mmvars, othervars, cq, cpc, uvS, uvI, backS, backI, bq>>

\* compute shader of makeCSShader, unpacked
InvokeIndexed ==
  /\ bq.mode = "indexed" /\ binv < NumTexels(OutPhys)
  /\ LET p == TexelNo(OutPhys, binv)
         r == getSamplerAtOutputCoordsCS(bq.inInfo, bq.outInfo, p)
     IN reads' = Append(reads,
                   [coords |-> getOutputSamplingSnippetCS(bq.outInfo.logicalShape,
                                                           bq.outInfo.texShape, p),
                    uv |-> r.uv, lanes |-> r.lanes])
  /\ binv' = binv + 1
  /\ UNCHANGED <<mmvars, othervars, cq, cpc, uvS, uvI, backS, backI, bq>>

\* fragment or compute shader with usesPackedTextures
InvokePacked ==
  /\ bq.mode = "packed" /\ binv < NumTexels(OutPhys)
  /\ LET p == TexelNo(OutPhys, binv)
         r == getPackedSamplerAtOutputCoords(bq.inInfo, bq.outInfo, p, bq.cs)
     IN reads' = Append(reads,
                   [coords |-> IF bq.cs
                                 THEN getPackedOutputSamplingSnippetCS(
                                        bq.outInfo.logicalShape, bq.outInfo.texShape, p)
                                 ELSE getPackedOutputSamplingSnippet(
                                        bq.outInfo.logicalShape, bq.outInfo.texShape, p),
                    uv |-> r.uv, lanes |-> r.lanes])
  /\ binv' = binv + 1
  /\ UNCHANGED <<mmvars, othervars, cq, cpc, uvS, uvI, backS, backI, bq>>

BcNext == InvokeSampling \/ InvokeIndexed \/ InvokePacked

SpecBroadcast == BcInit /\ [][BcNext]_vars

-----------------------------------------------------------------------------
\* the returned channels that are values of the output: one (unpacked, rank
\* 0), .xy (packed rank 1) or all four (packed rank >= 2)
OutLanes ==
  IF ~bq.outInfo.isPacked \/ Len(bq.outInfo.logicalShape) = 0 THEN {1}
  ELSE IF Len(bq.outInfo.logicalShape) = 1 THEN {1, 2}
  ELSE {1, 2, 3, 4}

\* output coordinate whose value channel l of invocation k is
OutElem(k, l) ==
  LET d == reads[k].coords
      n == Len(d)
  IN IF ~bq.outInfo.isPacked \/ Len(bq.outInfo.logicalShape) = 0 THEN d
     ELSE IF n = 1 THEN <<d[1] + (l - 1)>>
     ELSE [i \in 1..n |-> IF i = n - 1 THEN d[i] + ((l - 1) \div 2)
                          ELSE IF i = n THEN d[i] + ((l - 1) % 2)
                          ELSE d[i]]

InOutShape(o) ==
  /\ Len(o) = Len(bq.outInfo.logicalShape) \/ bq.outInfo.logicalShape = << >>
  /\ \A i \in 1..Len(bq.outInfo.logicalShape) : o[i] >= 0 /\ o[i] < bq.outInfo.logicalShape[i]

\* output axis i has no input axis, or an input axis of size 1
BroadcastAxis(i) ==
  LET rankDiff == Len(bq.outInfo.logicalShape) - Len(bq.inInfo.logicalShape)
  IN i <= rankDiff \/ bq.inInfo.logicalShape[i - rankDiff] = 1

DifferOnlyAlongBroadcast(o1, o2) ==
  \A i \in 1..Len(bq.outInfo.logicalShape) : o1[i] = o2[i] \/ BroadcastAxis(i)

\* the input element a returned channel carries: texel and channel
Source(k, l) == <<reads[k].uv, reads[k].lanes[l]>>

\* C9: output coordinates that differ only along axes the input lacks or has
\* with size 1 read the same single input element, in the sampling assembler,
\* the indexed assembler and the packed accessor (stated for the latest
\* invocation against every earlier one; every prefix of a run is a state)
C9_BroadcastSameElement ==
  (bq.mode # "none" /\ reads # << >>) =>
    \A k \in DOMAIN reads : \A l1 \in OutLanes, l2 \in OutLanes :
       (/\ InOutShape(OutElem(Len(reads), l1)) /\ InOutShape(OutElem(k, l2))
        /\ DifferOnlyAlongBroadcast(OutElem(Len(reads), l1), OutElem(k, l2)))
         => Source(Len(reads), l1) = Source(k, l2)

\* a packed rank-0 input is read at the coordinates of a packed output of rank >= 1
ScalarIntoPacked ==
  /\ bq.mode = "packed"
  /\ bq.inInfo.logicalShape = << >>
  /\ Len(bq.outInfo.logicalShape) >= 1

\* C10 (as stated): a packed rank-0 input read at the coordinates of a packed
\* output of any rank >= 1 returns channel 0 of the fetched texel in all four
\* channel positions
C10_ScalarInAllFourChannels ==
  ScalarIntoPacked => \A k \in DOMAIN reads : reads[k].lanes = xxxx

\* C10 (amended): the returned value has channel 0 of the fetched texel in all
\* four positions when the output has rank >= 2; for an output of rank 1 it has
\* channel 0 in the first two positions and the constant 0 in the other two
C10_ScalarBroadcastChannels ==
  ScalarIntoPacked =>
    \A k \in DOMAIN reads :
       /\ reads[k].uv = <<0, 0>>
       /\ reads[k].lanes = IF Len(bq.outInfo.logicalShape) = 1 THEN xx00 ELSE xxxx

C10_Witness ==
  /\ ScalarIntoPacked
  /\ Len(bq.outInfo.logicalShape) = 1
  /\ Len(reads) >= 2

-----------------------------------------------------------------------------
(* The assembler (makeShader / makeCSShader).  An emitted source is the      *)
(* sequence of its top-level items in text order; an item records the stage  *)
(* that produced it, the function or declaration it defines, the helper      *)
(* functions its body calls and which variant of the text was emitted.       *)

Item(stage, name, calls, body) ==
  [stage |-> stage, name |-> name, calls |-> calls, body |-> body]

\* names: a helper with a fixed name, 'get' + Name with a number of
\* parameters, and 'get' + Name + 'AtOutCoords'
Fn(name) == <<name, "", 0>>
Get(texName, arity) == <<"get", texName, arity>>
AtOut(texName) == <<"getAtOutCoords", texName, 0>>

\* outcome of an emitter: it threw, or the items it returned; heap is the
\* object store after the call
Thrown(h) == [threw |-> TRUE, items |-> << >>, heap |-> h]
Emitted(items, h) == [threw |-> FALSE, items |-> items, heap |-> h]

\* const newInputInfo = JSON.parse(JSON.stringify(inInfo));
\* newInputInfo.shapeInfo.logicalShape = squeezedShape;
\* (variant that copies only the outer object)
squeezeInputInfoObj_Shallow(h, id, squeezedShape) ==
  LET h1 == [h EXCEPT ![h[id].shapeInfo].logicalShape = squeezedShape]
      h2 == Append(h1, h[id])
  IN [heap |-> h2, id |-> Len(h2)]

\* const newInputInfo = JSON.parse(JSON.stringify(inInfo));
\* newInputInfo.shapeInfo.logicalShape = squeezedShape;
squeezeInputInfoObj(h, id, squeezedShape) ==
  LET h1 == Append(h, [h[h[id].shapeInfo] EXCEPT !.logicalShape = squeezedShape])
      h2 == Append(h1, [h[id] EXCEPT !.shapeInfo = Len(h1)])
  IN [heap |-> h2, id |-> Len(h2)]

\* text emitted by getSamplerFromInInfo (cs = FALSE) / getSamplerFromInInfoCS
\* (cs = TRUE) and the getSampler<N>D[CS] function it dispatches to
RECURSIVE getSamplerFromInInfoSrc(_, _, _)
getSamplerFromInInfoSrc(h, id, cs) ==
  LET texName == h[id].name
      info == h[h[id].shapeInfo]
      shape == info.logicalShape
      rank == Len(shape)
      texNumR == info.texShape[1]
      texNumC == info.texShape[2]
      squeezedShape == squeezeShape(shape).newShape
      stride0 == sizeFromShape(Tail(shape))
      strideLast == shape[rank]
      fn(calls, body) == Emitted(<<Item("input", Get(texName, rank), calls, body)>>, h)
      direct == fn({Fn("sampleTexture")}, "direct")
      flat == fn({Fn("uvFromFlat"), Fn("sampleTexture")}, "flat")
      uniform == fn({}, "uniform")
      sq == squeezeInputInfoObj(h, id, squeezedShape)
      inner == getSamplerFromInInfoSrc(sq.heap, sq.id, cs)
      squeezed == IF inner.threw THEN Thrown(inner.heap)
                  ELSE Emitted(Append(inner.items,
                                      Item("input", Get(texName, rank),
                                           {Get(texName, Len(squeezedShape))}, "squeezed")),
                               inner.heap)
  IN CASE rank = 0 ->
            IF info.isUniform THEN uniform
            ELSE IF texNumR = 1 /\ texNumC = 1 THEN direct ELSE flat
       [] rank = 1 ->
            IF info.isUniform THEN uniform
            ELSE IF texNumC = 1 \/ texNumR = 1 THEN direct ELSE flat
       [] rank = 2 ->
            IF shape = info.texShape THEN direct
            ELSE IF Len(squeezedShape) < rank THEN squeezed
            ELSE IF info.isUniform THEN uniform
            ELSE IF texNumC = 1 \/ texNumR = 1 THEN direct ELSE flat
       [] rank \in 3..6 /\ ~cs ->
            IF Len(squeezedShape) < rank THEN squeezed
            ELSE IF info.isUniform THEN uniform
            ELSE IF info.flatOffset = Null /\ (texNumC = stride0 \/ texNumC = strideLast)
                   THEN direct ELSE flat
       [] rank \in 3..4 /\ cs ->
            IF Len(squeezedShape) < rank THEN squeezed
            ELSE IF texNumC = stride0 \/ texNumC = strideLast THEN direct
            ELSE fn({Fn(IF rank = 3 THEN "UVfrom3D" ELSE "UVfrom4D"), Fn("sampleTexture")},
                    "flat")
       [] OTHER -> Thrown(h)

\* text emitted by getPackedSamplerFromInInfo / getPackedSamplerFromInInfoCS
\* and the getPackedSampler<N>D[CS] function it dispatches to
RECURSIVE getPackedSamplerFromInInfoSrc(_, _)
getPackedSamplerFromInInfoSrc(h, id) ==
  LET texName == h[id].name
      info == h[h[id].shapeInfo]
      shape == info.logicalShape
      rank == Len(shape)
      fn(calls, body) == Emitted(<<Item("input", Get(texName, rank), calls, body)>>, h)
      sq == squeezeInputInfoObj(h, id, Tail(shape))
      inner == getPackedSamplerFromInInfoSrc(sq.heap, sq.id)
  IN CASE rank = 0 -> fn({}, "direct")
       [] rank = 1 -> fn({Fn("packedUVfrom1D")}, "flat")
       [] rank = 2 -> IF shape = info.texShape THEN fn({}, "direct")
                      ELSE fn({Fn("packedUVfrom2D")}, "flat")
       [] rank = 3 -> IF shape[1] = 1
                        THEN Emitted(Append(inner.items,
                                            Item("input", Get(texName, 3),
                                                 {Get(texName, 2)}, "squeezed")),
                                     inner.heap)
                        ELSE fn({Fn("packedUVfrom3D")}, "flat")
       [] OTHER -> fn({}, "flat")

\* getCoordsDataType(rank) throws for rank > 6
CoordsDataTypeThrows(rank) == rank > 6

\* text emitted by getPackedSamplerAtOutputCoords, getSamplerAtOutputCoords
\* and getSamplerAtOutputCoordsCS
getSamplerAtOutputCoordsSrc(h, id, outShapeInfo, usesPackedTextures, cs) ==
  LET texName == h[id].name
      info == h[h[id].shapeInfo]
      inRank == Len(info.logicalShape)
      outRank == Len(outShapeInfo.logicalShape)
      sameTexture == /\ ~info.isUniform /\ inRank = outRank
                     /\ info.flatOffset = Null /\ info.texShape = outShapeInfo.texShape
      fn(calls, body) == Emitted(<<Item("input", AtOut(texName), calls, body)>>, h)
      viaCoords == IF CoordsDataTypeThrows(outRank) THEN Thrown(h)
                   ELSE fn({Fn("getOutputCoords"), Get(texName, inRank)}, "coords")
  IN IF usesPackedTextures THEN viaCoords
     ELSE IF sameTexture THEN fn({Fn("sampleTexture")}, "direct")
     ELSE IF cs THEN fn({Fn("sampleTexture")}, "flat")
     ELSE viaCoords

\* getInputSamplingSnippet / getInputSamplingSnippetCS
getInputSamplingSnippetSrc(h, id, outShapeInfo, usesPackedTextures, cs) ==
  LET res == IF usesPackedTextures THEN getPackedSamplerFromInInfoSrc(h, id)
                                   ELSE getSamplerFromInInfoSrc(h, id, cs)
      info == res.heap[res.heap[id].shapeInfo]
      atOut == getSamplerAtOutputCoordsSrc(res.heap, id, outShapeInfo, usesPackedTextures, cs)
  IN IF res.threw THEN res
     ELSE IF Len(info.logicalShape) <= Len(outShapeInfo.logicalShape)
            THEN IF atOut.threw THEN atOut
                 ELSE Emitted(res.items \o atOut.items, atOut.heap)
     ELSE res

\* text emitted by get[Packed]OutputSamplingSnippet[CS]: the definition of
\* getOutputCoords()
getOutputSamplingSnippetSrc(outShapeInfo, cs) ==
  LET shape == outShapeInfo.logicalShape
      rank == Len(shape)
      fn(calls, body) == Emitted(<<Item("decoder", Fn("getOutputCoords"), calls, body)>>, << >>)
  IN IF outShapeInfo.isPacked
       THEN IF rank <= 1 \/ (rank = 2 /\ shape = outShapeInfo.texShape)
              THEN fn({}, "packed") ELSE fn({Fn("imod")}, "packed")
       ELSE IF rank > 6 THEN Thrown(<< >>)
            ELSE IF cs /\ rank >= 5 THEN fn({}, "resultUV")
            ELSE fn({}, IF cs THEN "gl_GlobalInvocationID" ELSE "resultUV")

\* getShaderPrefix / getShaderPrefixCS followed by SHADER_PACKED_PREFIX
getShaderPrefixSrc(e, usesPackedTextures, cs) ==
  LET nanChecks == IF e.PROD
                     THEN <<Item("numeric", Fn("isNaN"), {}, "false"),
                            Item("numeric", Fn("hasNaN"), {}, "false")>>
                     ELSE <<Item("numeric", Fn("isNaN"), {}, "compare"),
                            Item("numeric", Fn("hasNaN"), {Fn("isNaN")}, "compare")>>
      helper(name) == Item("index", Fn(name), {}, "")
  IN nanChecks
       \o <<Item("numeric", Fn("getNaN"), {}, ""), helper("imod")>>
       \o (IF cs THEN << >> ELSE <<helper("random")>>)
       \o <<helper("uvFromFlat"), helper("packedUVfrom1D"),
            helper("packedUVfrom2D"), helper("packedUVfrom3D")>>
       \o (IF usesPackedTextures THEN <<helper("getChannel")>> ELSE << >>)

\* helper functions the main() of a kernel generator's userCode calls
userCodeCalls(body) ==
  CASE body = "MatMulPackedProgramCS" ->
         {Fn("getOutputCoords"), Get("matrixA", 3), Get("matrixB", 3), Fn("setOutput")}
    [] body = "MatMulPackedProgramCSV4" ->
         {Fn("getOutputCoords"), Fn("imod"), Get("matrixA", 3), Get("matrixB", 3)}
    [] body = "Conv2DProgramCS" ->
         {Fn("getFirstThreadOutputCoords"), Get("x", 4), Fn("getOutputCoords"),
          Get("W", 4), Fn("setOutput")}
    [] OTHER -> {}

-----------------------------------------------------------------------------
(* Calls of the assembler *)

AsmMaxAxis == 2     \* largest axis size of a tensor handed to the assembler
AsmMaxSize == 8     \* largest number of elements
MaxCalls == 3       \* calls with the same arguments that are followed

AsmShapesOfRank(r) == {s \in [1..r -> 1..AsmMaxAxis] : sizeFromShape(s) <= AsmMaxSize}

\* ranks 0 .. 6 and one rank the emitters have no case for, and the shapes
\* [2, ..., 2] that have no axis to squeeze
AsmShapes == UNION {AsmShapesOfRank(r) : r \in 0..(MaxRank + 1)}
               \cup {[i \in 1..r |-> 2] : r \in 1..MaxRank}

\* the storage shape that lays the tensor out in one row
RowTex(isPacked, shape) ==
  IF isPacked THEN IF shape = << >> THEN <<1, 1>> ELSE <<2, 2 * PackedTexels(shape)>>
  ELSE <<1, sizeFromShape(shape)>>

\* descriptions of one tensor of a given shape: plain, uploaded as a uniform
\* array, or a slice at an offset of a larger texture
InfosOf(isPacked, shape) ==
  {[ShapeInfo(isPacked, shape, ts) EXCEPT !.isUniform = f[1], !.flatOffset = f[2]] :
     ts \in TexShapesOf(isPacked, shape),
     f \in IF isPacked THEN {<<FALSE, Null>>}
           ELSE {<<FALSE, Null>>, <<TRUE, Null>>, <<FALSE, 0>>}}

\* output descriptions tried with an input: the input's own, and one of every rank
OutsFor(isPacked, info) ==
  {ShapeInfo(isPacked, info.logicalShape, info.texShape)}
    \cup {ShapeInfo(isPacked, [i \in 1..r |-> IF i = r THEN 2 ELSE 1],
                    RowTex(isPacked, [i \in 1..r |-> IF i = r THEN 2 ELSE 1]))
            : r \in 0..(MaxRank + 1)}

Request(cs, usesPackedTextures, inputsInfo, outputShape, userCode) ==
  [cs |-> cs, usesPackedTextures |-> usesPackedTextures, inputsInfo |-> inputsInfo,
   outputShape |-> outputShape, userCode |-> userCode]

\* the objects the caller passes: InputInfo i at 2i - 1, its ShapeInfo at 2i
CallerHeap(inputsInfo) ==
  [k \in 1..(2 * Len(inputsInfo)) |->
     IF k % 2 = 1 THEN [name |-> inputsInfo[(k + 1) \div 2].name, shapeInfo |-> k + 1]
                  ELSE inputsInfo[k \div 2].shapeInfo]

NoSnippets ==
  [decl |-> << >>, input |-> << >>, prefix |-> << >>, sample |-> << >>,
   decoder |-> << >>, setOutput |-> << >>]

\* one call of makeShader (cs = FALSE) or makeCSShader (cs = TRUE): without
\* inputs, with one input, or with the inputs of a kernel generator
AsmInitWith(shapes) ==
  /\ MMIdle /\ CoIdle /\ ConvIdle
  /\ env \in {[PROD |-> b] : b \in BOOLEAN}
  /\ \E cs \in BOOLEAN, pk \in BOOLEAN :
       \/ \E sh \in shapes : \E info \in InfosOf(pk, sh) : \E o \in OutsFor(pk, info) :
            breq = Request(cs, pk, <<[name |-> "A", shapeInfo |-> info]>>, o, "none")
       \/ \E o \in OutsFor(pk, ShapeInfo(pk, << >>, <<1, 1>>)) :
            breq = Request(cs, pk, << >>, o, "none")
       \/ /\ cs /\ pk
          /\ \E sh \in {t \in shapes : Len(t) = 3} : \E info \in InfosOf(pk, sh) :
             \E body \in {"MatMulPackedProgramCS", "MatMulPackedProgramCSV4"} :
               breq = Request(cs, pk, <<[name |-> "matrixA", shapeInfo |-> info],
                                        [name |-> "matrixB", shapeInfo |-> info]>>,
                              ShapeInfo(pk, sh, info.texShape), body)
       \/ /\ cs /\ ~pk
          /\ \E sh \in {t \in shapes : Len(t) = 4} : \E info \in InfosOf(pk, sh) :
               breq = Request(cs, pk, <<[name |-> "x", shapeInfo |-> info],
                                        [name |-> "W", shapeInfo |-> info]>>,
                              ShapeInfo(pk, sh, info.texShape), "Conv2DProgramCS")
  /\ bpc = "args" /\ bi = 0
  /\ heap = CallerHeap(breq.inputsInfo)
  /\ snip = NoSnippets /\ source = << >> /\ prev = << >>

\* inputsInfo.forEach(x => prefixSnippets.push(...))
DeclareInputs ==
  /\ bpc = "args"
  /\ snip' = [snip EXCEPT !.decl =
       [i \in 1..Len(breq.inputsInfo) |->
          Item("decl", <<"uniform", heap[2 * i - 1].name, 0>>, {},
               IF heap[heap[2 * i - 1].shapeInfo].isUniform THEN "float" ELSE "sampler2D")]]
  /\ bpc' = "inputs"
  /\ UNCHANGED <<mmvars, covars, convvars, env, breq, bi, heap, source, prev>>

\* one element of inputsInfo.map(x => getInputSamplingSnippet[CS](x, ...))
EmitInputSampling ==
  /\ bpc = "inputs" /\ bi < Len(breq.inputsInfo)
  /\ LET r == getInputSamplingSnippetSrc(heap, 2 * bi + 1, breq.outputShape,
                                         breq.usesPackedTextures, breq.cs)
     IN /\ heap' = r.heap
        /\ IF r.threw
             THEN bpc' = "threw" /\ UNCHANGED <<snip, bi>>
             ELSE /\ snip' = [snip EXCEPT !.input = @ \o r.items]
                  /\ bi' = bi + 1
                  /\ bpc' = bpc
  /\ UNCHANGED <<mmvars, covars, convvars, env, breq, source, prev>>

\* getFloatTextureSampleSnippet[CS](glsl); getShaderPrefix[CS](glsl)
EmitPrefix ==
  /\ bpc = "inputs" /\ bi = Len(breq.inputsInfo)
  /\ snip' = [snip EXCEPT
                !.prefix = getShaderPrefixSrc(env, breq.usesPackedTextures, breq.cs),
                !.sample = <<Item("sample", Fn("sampleTexture"), {},
                                  IF breq.cs THEN "texelFetch" ELSE "texture2D")>>]
  /\ bpc' = "decoder"
  /\ UNCHANGED <<mmvars, covars, convvars, env, breq, bi, heap, source, prev>>

\* get[Packed]OutputSamplingSnippet[CS](...); getFloatTextureSet...Snippet[CS](glsl)
EmitOutputDecoder ==
  /\ bpc = "decoder"
  /\ LET r == getOutputSamplingSnippetSrc(breq.outputShape, breq.cs)
     IN IF r.threw
          THEN bpc' = "threw" /\ UNCHANGED snip
          ELSE /\ snip' = [snip EXCEPT
                    !.decoder = r.items,
                    !.setOutput = <<Item("setOutput", Fn("setOutput"), {},
                                         IF breq.outputShape.isPacked THEN "vec4" ELSE "float")>>]
               /\ bpc' = "join"
  /\ UNCHANGED <<mmvars, covars, convvars, env, breq, bi, heap, source, prev>>

\* (variant that joins the input sampling snippets before the decoder)
joinSource_InputsBeforeDecoder(sn, userCode) ==
  sn.prefix \o sn.sample \o sn.setOutput \o sn.decl \o sn.input \o sn.decoder
    \o <<Item("user", Fn("main"), userCodeCalls(userCode), userCode)>>

\* [shaderPrefix, floatTextureSampleSnippet, floatTextureSetOutputSnippet,
\*  inputPrefixSnippet, outputSamplingSnippet, inputSamplingSnippet,
\*  userCode].join('\n')
joinSource(sn, userCode) ==
  sn.prefix \o sn.sample \o sn.setOutput \o sn.decl \o sn.decoder \o sn.input
    \o <<Item("user", Fn("main"), userCodeCalls(userCode), userCode)>>

\* const source = [...].join('\n'); return source;
JoinSource ==
  /\ bpc = "join"
  /\ source' = joinSource(snip, breq.userCode)
  /\ bpc' = "returned"
  /\ UNCHANGED <<mmvars, covars, convvars, env, breq, bi, heap, snip, prev>>

AsmNext ==
  \/ DeclareInputs
  \/ EmitInputSampling
  \/ EmitPrefix
  \/ EmitOutputDecoder
  \/ JoinSource

AsmInit == AsmInitWith(AsmShapes)

SpecAsm == AsmInit /\ [][AsmNext]_vars

-----------------------------------------------------------------------------
(* Properties of the assembler *)

\* C11: for a logical shape of rank greater than 6, packed or unpacked, in
\* makeShader and in makeCSShader, emitting the input sampler throws and
\* emitting the output-coordinate decoder throws: no sampling snippet of such
\* an input and no decoder of such an output is ever returned
C11_RankAbove6Rejected ==
  /\ \A i \in 1..bi : Len(breq.inputsInfo[i].shapeInfo.logicalShape) <= 6
  /\ bpc \in {"join", "returned"} => Len(breq.outputShape.logicalShape) <= 6

\* C12: for shapes of rank 0 .. 6 the unpacked input sampler and the unpacked
\* output decoder are emitted without an error, in makeShader and in
\* makeCSShader: an unpacked call throws only for an input or output of rank
\* greater than 6
C12_UnpackedRanksUpTo6Emit ==
  (~breq.usesPackedTextures /\ ~breq.outputShape.isPacked /\ bpc = "threw") =>
     \/ Len(breq.outputShape.logicalShape) > 6
     \/ /\ bi < Len(breq.inputsInfo)
        /\ Len(breq.inputsInfo[bi + 1].shapeInfo.logicalShape) > 6

\* position of a stage in the order numeric-stability helpers, index-math
\* helpers (with the texture read / write helpers), per-input declarations and
\* addressing functions, output-coordinate decoder, user body
StageOrder(stage) ==
  CASE stage = "numeric" -> 1
    [] stage \in {"index", "sample", "setOutput"} -> 2
    [] stage \in {"decl", "input"} -> 3
    [] stage = "decoder" -> 4
    [] stage = "user" -> 5

\* C13 (as stated): the items of a returned source appear in the fixed stage order; in
\* particular every per-input addressing function precedes the definition of
\* getOutputCoords
C13_StagesInFixedOrder ==
  bpc = "returned" =>
    \A i, j \in DOMAIN source :
       i < j => StageOrder(source[i].stage) <= StageOrder(source[j].stage)

\* the order the assembler joins its stages in: as above, with the
\* output-coordinate decoder between the declarations and the addressing
\* functions of the inputs
JoinOrder(stage) ==
  CASE stage = "numeric" -> 1
    [] stage \in {"index", "sample", "setOutput"} -> 2
    [] stage = "decl" -> 3
    [] stage = "decoder" -> 4
    [] stage = "input" -> 5
    [] stage = "user" -> 6

\* C13 (amended): the items of a returned source appear in the order
\* numeric-stability helpers, index-math helpers, per-input declarations,
\* output-coordinate decoder, per-input addressing functions, user body; in
\* particular the definition of getOutputCoords precedes every per-input
\* addressing function
C13_StagesInJoinOrder ==
  bpc = "returned" =>
    \A i, j \in DOMAIN source :
       i < j => JoinOrder(source[i].stage) <= JoinOrder(source[j].stage)

C13_Witness ==
  /\ bpc = "returned"
  /\ \E i, j \in DOMAIN source :
       i < j /\ source[i].stage = "decoder" /\ source[j].name = AtOut("A")

\* every helper an item calls is defined by an earlier item of the source
DefinedBeforeUse(src) ==
  \A j \in DOMAIN src : \A f \in src[j].calls : \E i \in 1..(j - 1) : src[i].name = f

\* C14: in every source makeCSShader returns, for any input shapes and any of
\* the kernel generators' bodies, every helper function that is called is
\* defined in the same source before its first call
C14_HelpersDefinedBeforeUse ==
  (bpc = "returned" /\ breq.cs) => DefinedBeforeUse(source)

\* a thread has executed the load statements of tile t / the accumulation
\* loop of tile t
LoadedTile(th, t) == tile[th] > t \/ (tile[th] = t /\ pc[th] # "load")
ComputedTile(th, t) == tile[th] > t \/ (tile[th] = t /\ pc[th] \notin {"load", "bar1", "compute"})

\* C15: in all four matmul kernels a thread about to read Asub / Bsub in the
\* accumulation loop of tile t finds that every thread of the workgroup has
\* written its cells of tile t, and a thread about to write its cells of tile
\* t + 1 finds that every thread has finished the accumulation loop of tile t
C15_BarriersSeparatePhases ==
  phase = "running" =>
    \A th \in DOMAIN pc : \A th2 \in DOMAIN pc :
      /\ pc[th] = "compute" => LoadedTile(th2, tile[th])
      /\ (pc[th] = "load" /\ tile[th] >= 1) => ComputedTile(th2, tile[th] - 1)

\* a workgroup of several threads in its second tile: one thread has finished
\* the accumulation loop while another is still to run it
C15_Witness ==
  /\ phase = "running"
  /\ \E th \in DOMAIN pc : \E th2 \in DOMAIN pc :
        /\ th # th2
        /\ tile[th] = 1 /\ pc[th] = "bar2"
        /\ tile[th2] = 1 /\ pc[th2] = "compute"

-----------------------------------------------------------------------------
(* Cache-tiled convolution kernels (conv_gpu_cs.ts, conv_gpu_depthwise_cs.ts) *)

\* the input tensor x and the filter W
XIn(b, r, c, d) == 1 + 11 * b + 2 * r + 3 * c + 5 * d
WIn(wR, wC, d1, d2) == 1 + wR + 2 * wC + 3 * d1 + 4 * d2

\* a cache cell the fill phase has not written
Untouched == <<"untouched">>

InInput(ci, r, c) == r >= 0 /\ r < ci.inHeight /\ c >= 0 /\ c < ci.inWidth

\* getX(b, r, c, d): the input element, or whatever an out-of-range fetch gives
getX(ci, u, t) ==
  IF t[1] < ci.batchSize /\ InInput(ci, t[2], t[3]) /\ t[4] >= 0 /\ t[4] < ci.inChannels
    THEN XIn(t[1], t[2], t[3], t[4]) ELSE u

\* new Conv2DProgramCS(convInfo)
Conv2DProgramCS(convInfo) ==
  [kernel |-> "Conv2DProgramCS",
   outputShape |-> convInfo.outShape,
   localGroupSize |-> <<8, 7>>,
   channelMul |-> 1,
   CACHE_H |-> convInfo.filterHeight,
   CACHE_W |-> (7 - 1) * convInfo.strideWidth + convInfo.filterWidth +
               (convInfo.filterWidth - 1) * (convInfo.dilationWidth - 1),
   CACHE_C |-> convInfo.inChannels]

\* new DepthwiseConv2DProgramCS(convInfo)
DepthwiseConv2DProgramCS(convInfo) ==
  LET channelMul == convInfo.outChannels \div convInfo.inChannels
  IN [kernel |-> "DepthwiseConv2DProgramCS",
      outputShape |-> convInfo.outShape,
      localGroupSize |-> <<8 * channelMul, 7>>,
      channelMul |-> channelMul,
      CACHE_H |-> convInfo.filterHeight,
      CACHE_W |-> (7 - 1) * convInfo.strideWidth + convInfo.filterWidth +
                  (convInfo.filterWidth - 1) * (convInfo.dilationWidth - 1),
      CACHE_C |-> (8 * channelMul) \div channelMul]

\* texture of the 4-D output: one row per (batch, row, column), one column per
\* output channel
OutTex(ci) == <<ci.outShape[1] * ci.outShape[2] * ci.outShape[3], ci.outShape[4]>>

NumThreads(d) == d.localGroupSize[1] * d.localGroupSize[2]

\* gl_GlobalInvocationID.xy of the thread with gl_LocalInvocationIndex li
GlobalId(d, wg, li) ==
  <<wg[1] * d.localGroupSize[1] + (li % d.localGroupSize[1]),
    wg[2] * d.localGroupSize[2] + li \div d.localGroupSize[1]>>

\* getFirstThreadOutputCoords(): getOutputCoords() of the workgroup's thread 0
getFirstThreadOutputCoords(ci, d, wg) ==
  getOutput4DCoordsCS(ci.outShape, OutTex(ci), GlobalId(d, wg, 0))

cacheRCorner(ci, d, wg) == getFirstThreadOutputCoords(ci, d, wg)[2] * ci.strideHeight - ci.padTop
cacheCCorner(ci, d, wg) == getFirstThreadOutputCoords(ci, d, wg)[3] * ci.strideWidth - ci.padLeft
cacheDCorner(ci, d, wg) == getFirstThreadOutputCoords(ci, d, wg)[4] \div d.channelMul

\* body of the fill loop for one index: the cell, the input element copied
\* into it, and whether the bounds test lets the copy happen
FillOf(ci, d, corner, index) ==
  LET CACHE_WC == d.CACHE_W * d.CACHE_C
      r == index \div CACHE_WC
      cd == index - r * CACHE_WC
      c == cd \div d.CACHE_C
      dd == cd - c * d.CACHE_C
      xR == corner[2] + r * ci.dilationHeight
      xC == corner[3] + c
  IN IF d.kernel = "Conv2DProgramCS"
       THEN [cell |-> <<r, cd>>, from |-> <<corner[1], xR, xC, dd>>,
             written |-> InInput(ci, xR, xC)]
       ELSE [cell |-> <<r, cd>>, from |-> <<corner[1], xR, xC, corner[4] + dd>>,
             written |-> InInput(ci, corner[2] + r, xC) /\ corner[4] + dd < ci.inChannels]

\* gl_LocalInvocationIndex of the thread whose loop (index = li, li + #threads,
\* ... while index < CACHE_HWC) visits an index
VisitedBy(d, index) == index % NumThreads(d)

\* the filter taps the accumulation loops of the thread at global id g visit,
\* in loop order, with the cache cell each one reads
TapsOf(ci, d, wg, g) ==
  LET coords == getOutput4DCoordsCS(ci.outShape, OutTex(ci), g)
      xRCorner == coords[2] * ci.strideHeight - ci.padTop
      xCCorner == coords[3] * ci.strideWidth - ci.padLeft
      d2 == coords[4]
      conv == d.kernel = "Conv2DProgramCS"
      nearest4 == (ci.inChannels \div 4) * 4
      depths == IF conv THEN [i \in 1..(nearest4 + (ci.inChannels % 4)) |-> i - 1]
                        ELSE <<d2 \div d.channelMul>>
      nD == Len(depths)
      wR(i) == (i - 1) \div (ci.filterWidth * nD)
      wC(i) == ((i - 1) % (ci.filterWidth * nD)) \div nD
      d1(i) == depths[((i - 1) % nD) + 1]
      xR(i) == IF conv THEN xRCorner + wR(i) * ci.dilationHeight ELSE xRCorner + wR(i)
      xC(i) == xCCorner + wC(i) * ci.dilationWidth
      sR(i) == IF conv THEN wR(i) ELSE xR(i) - cacheRCorner(ci, d, wg)
      sC(i) == (xC(i) - cacheCCorner(ci, d, wg)) * d.CACHE_C
      cell(i) == IF conv THEN <<sR(i), sC(i) + d1(i)>>
                         ELSE <<sR(i), sC(i) + d1(i) - cacheDCorner(ci, d, wg)>>
      w(i) == IF conv THEN WIn(wR(i), wC(i), d1(i), d2)
                      ELSE WIn(wR(i), wC(i), d1(i), d2 - d1(i) * d.channelMul)
      all == [i \in 1..(ci.filterHeight * ci.filterWidth * nD) |->
                [wR |-> wR(i), wC |-> wC(i), d1 |-> d1(i), xR |-> xR(i), xC |-> xC(i),
                 batch |-> coords[1], cell |-> cell(i), w |-> w(i)]]
  IN SelectSeq(all, LAMBDA t : InInput(ci, t.xR, t.xC))

\* value a read of the cache yields: the value written by the fill, and an
\* arbitrary one for an untouched cell or a cell outside the array
CacheRead(ci, u, cell) ==
  IF cell \in DOMAIN cache /\ cache[cell] # Untouched THEN getX(ci, u, cache[cell]) ELSE u

RECURSIVE DotProd(_, _, _)
DotProd(ci, u, taps) ==
  IF taps = << >> THEN 0
  ELSE CacheRead(ci, u, Head(taps).cell) * Head(taps).w + DotProd(ci, u, Tail(taps))

-----------------------------------------------------------------------------
(* State machine of one convolution build and the run of one workgroup *)

ConvStrides == {<<1, 1>>, <<2, 1>>, <<1, 2>>}
ConvDilations == {<<1, 1>>, <<2, 1>>, <<1, 2>>}
ConvFilters == {<<1, 1>>, <<2, 2>>}
ConvPads == {0, 1}
ConvWidths == {7, 8, 13}
ConvHeights == {3}
ConvBatches == {1}
MaxInChannels == 2
MaxChannelMul == 2

\* conv_util.computeConv2DInfo for a padding of pad cells on every side
ConvInfoOf(b, inH, inW, inC, outC, flt, str, dil, pad) ==
  LET effH == (flt[1] - 1) * dil[1] + 1
      effW == (flt[2] - 1) * dil[2] + 1
      outH == (inH + 2 * pad - effH) \div str[1] + 1
      outW == (inW + 2 * pad - effW) \div str[2] + 1
  IN [batchSize |-> b, inHeight |-> inH, inWidth |-> inW, inChannels |-> inC,
      outChannels |-> outC, outShape |-> <<b, outH, outW, outC>>,
      filterHeight |-> flt[1], filterWidth |-> flt[2],
      strideHeight |-> str[1], strideWidth |-> str[2],
      dilationHeight |-> dil[1], dilationWidth |-> dil[2],
      padTop |-> pad, padLeft |-> pad,
      fits |-> inH + 2 * pad >= effH /\ inW + 2 * pad >= effW]

ConvInit ==
  /\ \E kernel \in {"Conv2DProgramCS", "DepthwiseConv2DProgramCS"}, b \in ConvBatches,
        inH \in ConvHeights, inW \in ConvWidths, inC \in 1..MaxInChannels,
        mul \in 1..MaxChannelMul, flt \in ConvFilters, str \in ConvStrides,
        dil \in ConvDilations, pad \in ConvPads, u \in UndefValues :
       LET ci == ConvInfoOf(b, inH, inW, inC,
                            IF kernel = "Conv2DProgramCS" THEN mul ELSE inC * mul,
                            flt, str, dil, pad)
       IN /\ ci.fits
          /\ cv = [kind |-> "args", kernel |-> kernel, convInfo |-> ci, undef |-> u]
  /\ cvpc = [phase |-> "args"]
  /\ cache = << >>
  /\ cvreads = << >>
  /\ cvout = << >>
  /\ MMIdle /\ CoIdle /\ AsmIdle

\* the constructor, and the dispatch of the grid; one workgroup is observed
ConvConstruct ==
  /\ cvpc.phase = "args"
  /\ LET d == IF cv.kernel = "Conv2DProgramCS" THEN Conv2DProgramCS(cv.convInfo)
                                                ELSE DepthwiseConv2DProgramCS(cv.convInfo)
     IN /\ \E wx \in 0..(CeilDiv(OutTex(cv.convInfo)[2], d.localGroupSize[1]) - 1),
              wy \in 0..(CeilDiv(OutTex(cv.convInfo)[1], d.localGroupSize[2]) - 1) :
              cv' = [kind |-> "run", kernel |-> cv.kernel, convInfo |-> cv.convInfo,
                     undef |-> cv.undef, desc |-> d, wg |-> <<wx, wy>>]
        /\ cache' = [cell \in (0..(d.CACHE_H - 1)) \X (0..(d.CACHE_W * d.CACHE_C - 1)) |-> Untouched]
  /\ cvpc' = [phase |-> "fill"]
  /\ UNCHANGED <<mmvars, covars, asmvars, cvreads, cvout>>

\* while (index < CACHE_HWC) { ... cache[r][cd] = getX(...); index += #threads; }
\* run by every thread of the workgroup; each index, and so each cell, is
\* visited by one thread only, so the order of the threads is immaterial
Fill ==
  /\ cvpc.phase = "fill"
  /\ LET corner == <<getFirstThreadOutputCoords(cv.convInfo, cv.desc, cv.wg)[1],
                     cacheRCorner(cv.convInfo, cv.desc, cv.wg),
                     cacheCCorner(cv.convInfo, cv.desc, cv.wg),
                     cacheDCorner(cv.convInfo, cv.desc, cv.wg)>>
     IN cache' = [cell \in DOMAIN cache |->
                    LET w == FillOf(cv.convInfo, cv.desc, corner,
                                    cell[1] * cv.desc.CACHE_W * cv.desc.CACHE_C + cell[2])
                    IN IF VisitedBy(cv.desc, cell[1] * cv.desc.CACHE_W * cv.desc.CACHE_C + cell[2])
                            \in 0..(NumThreads(cv.desc) - 1) /\ w.written
                         THEN w.from ELSE cache[cell]]
  /\ cvpc' = [phase |-> "barrier"]
  /\ UNCHANGED <<mmvars, covars, asmvars, cv, cvreads, cvout>>

\* memoryBarrierShared(); barrier();
ConvBarrier ==
  /\ cvpc.phase = "barrier"
  /\ cvpc' = [phase |-> "compute"]
  /\ UNCHANGED <<mmvars, covars, asmvars, cv, cache, cvreads, cvout>>

\* if (int(gl_GlobalInvocationID.x) >= outChannels) { return; }
Discard(li) ==
  /\ cvpc.phase = "compute"
  /\ li < NumThreads(cv.desc)
  /\ GlobalId(cv.desc, cv.wg, li)[1] >= cv.convInfo.outChannels
  /\ cvpc' = [phase |-> "returned"]
  /\ UNCHANGED <<mmvars, covars, asmvars, cv, cache, cvreads, cvout>>

\* coords = getOutputCoords(); the accumulation loops; setOutput(dotProd);
Convolve(li) ==
  /\ cvpc.phase = "compute"
  /\ li < NumThreads(cv.desc)
  /\ GlobalId(cv.desc, cv.wg, li)[1] < cv.convInfo.outChannels
  /\ GlobalId(cv.desc, cv.wg, li)[2] < OutTex(cv.convInfo)[1]
  /\ cvpc' = [phase |-> "done", thread |-> li]
  /\ LET taps == TapsOf(cv.convInfo, cv.desc, cv.wg, GlobalId(cv.desc, cv.wg, li))
     IN /\ cvreads' = taps
        /\ cvout' = <<DotProd(cv.convInfo, cv.undef, taps)>>
  /\ UNCHANGED <<mmvars, covars, asmvars, cv, cache>>

ConvNext ==
  \/ ConvConstruct
  \/ Fill
  \/ ConvBarrier
  \/ \E li \in 0..(8 * MaxChannelMul * 7 - 1) : Discard(li)
  \/ \E li \in 0..(8 * MaxChannelMul * 7 - 1) : Convolve(li)

SpecConv == ConvInit /\ [][ConvNext]_vars

\* output coordinates of the observed thread
ConvCoords ==
  getOutput4DCoordsCS(cv.convInfo.outShape, OutTex(cv.convInfo),
                      GlobalId(cv.desc, cv.wg, cvpc.thread))

\* C16: every cache read of a thread of Conv2DProgramCS, for a filter tap whose
\* input position is inside the input, is inside the declared cache array and
\* finds the cell written by the fill phase with x[batch, xR, xC, d1]
C16_CacheReadsFilled ==
  (cvpc.phase = "done" /\ cv.kernel = "Conv2DProgramCS") =>
    \A i \in DOMAIN cvreads :
      /\ cvreads[i].cell[1] \in 0..(cv.desc.CACHE_H - 1)
      /\ cvreads[i].cell[2] \in 0..(cv.desc.CACHE_W * cv.desc.CACHE_C - 1)
      /\ cache[cvreads[i].cell] = <<cvreads[i].batch, cvreads[i].xR, cvreads[i].xC, cvreads[i].d1>>

\* the reference depthwise sum at output position coords
RECURSIVE DepthwiseRef(_, _, _)
DepthwiseRef(ci, coords, n) ==
  IF n = 0 THEN 0
  ELSE LET wR == (n - 1) \div ci.filterWidth
           wC == (n - 1) % ci.filterWidth
           channelMul == ci.outChannels \div ci.inChannels
           xR == coords[2] * ci.strideHeight - ci.padTop + wR * ci.dilationHeight
           xC == coords[3] * ci.strideWidth - ci.padLeft + wC * ci.dilationWidth
           x == IF InInput(ci, xR, xC)
                  THEN XIn(coords[1], xR, xC, coords[4] \div channelMul) ELSE 0
       IN x * WIn(wR, wC, coords[4] \div channelMul, coords[4] % channelMul) +
          DepthwiseRef(ci, coords, n - 1)

\* C17: the value a thread of DepthwiseConv2DProgramCS hands to setOutput is
\* the reference depthwise sum at its output position, for every stride,
\* dilation and padding
C17_DepthwiseEqualsReference ==
  (cvpc.phase = "done" /\ cv.kernel = "DepthwiseConv2DProgramCS") =>
    cvout[1] = DepthwiseRef(cv.convInfo, ConvCoords,
                            cv.convInfo.filterHeight * cv.convInfo.filterWidth)

-----------------------------------------------------------------------------
(* The 4x4 scenario of the basic matmul kernel *)

\* two 4x4 matrices, basic kernel, TS = 2
MM4x4Init ==
  MMInitWith({c \in Configs({4}, {4}, {4}, AllTranspose, {FALSE}, {FALSE}) :
                c.variant = "CS" /\ c.TS = 2})

SpecMM4x4 == MM4x4Init /\ [][MMNext]_vars

\* C18: the basic kernel built for two 4x4 matrices with TS = 2 iterates over
\* 2 tiles of the packed shared dimension, and its output equals the naive
\* 4x4 product
C18_FourByFourTwoTiles ==
  /\ phase \in {"built", "running"} => desc.numTiles = 2
  /\ AllDone => OutputIsNaive

-----------------------------------------------------------------------------
(* Repeated calls of the assembler with the same arguments *)

\* (variant whose snippet lists outlive the call)
CallAgain_KeepSnippets ==
  /\ bpc \in {"returned", "threw"}
  /\ Len(prev) < MaxCalls - 1
  /\ prev' = Append(prev, [env |-> env, threw |-> bpc = "threw", source |-> source])
  /\ bpc' = "args" /\ bi' = 0 /\ source' = << >>
  /\ UNCHANGED <<mmvars, covars, convvars, env, breq, heap, snip>>

\* the caller calls makeShader / makeCSShader again with the same arguments;
\* prefixSnippets and the snippet constants are locals of the call
CallAgain ==
  /\ bpc \in {"returned", "threw"}
  /\ Len(prev) < MaxCalls - 1
  /\ prev' = Append(prev, [env |-> env, threw |-> bpc = "threw", source |-> source])
  /\ bpc' = "args" /\ bi' = 0 /\ source' = << >> /\ snip' = NoSnippets
  /\ UNCHANGED <<mmvars, covars, convvars, env, breq, heap>>

\* ENV.set('PROD', ...) between two calls
SetEnv ==
  /\ bpc = "args" /\ prev # << >>
  /\ env' = [PROD |-> ~env.PROD]
  /\ UNCHANGED <<mmvars, covars, convvars, breq, bpc, bi, heap, snip, source, prev>>

RepeatShapes == {sh \in AsmShapes : Len(sh) <= 4 /\ sizeFromShape(sh) <= 4}

AsmRepeatInit == AsmInitWith(RepeatShapes)

AsmRepeatNext == AsmNext \/ CallAgain \/ SetEnv

SpecAsmRepeat == AsmRepeatInit /\ [][AsmRepeatNext]_vars

IsInputInfo(obj) == "name" \in DOMAIN obj

\* C20: at every point of any sequence of calls the objects the caller passed
\* hold the values they were passed with, and every InputInfo made by a
\* squeeze is a new object whose ShapeInfo is a new object of its own
C20_CallerInputInfoUnchanged ==
  bpc # "idle" =>
    /\ \A k \in 1..(2 * Len(breq.inputsInfo)) : heap[k] = CallerHeap(breq.inputsInfo)[k]
    /\ \A k \in DOMAIN heap : \A j \in DOMAIN heap :
         (IsInputInfo(heap[k]) /\ IsInputInfo(heap[j]) /\ k # j) =>
            heap[k].shapeInfo # heap[j].shapeInfo

\* a second call has emitted the sampler of an input with a size-1 axis: the
\* heap holds squeezed copies next to the caller's objects
C20_Witness ==
  /\ prev # << >> /\ bpc = "returned"
  /\ Len(breq.inputsInfo) >= 1
  /\ Len(heap) > 2 * Len(breq.inputsInfo)
  /\ \E k \in DOMAIN heap :
       /\ k > 2 * Len(breq.inputsInfo) /\ IsInputInfo(heap[k])
       /\ Len(heap[heap[k].shapeInfo].logicalShape) < Len(heap[2].logicalShape)

-----------------------------------------------------------------------------
(* Squeezed accessors: what a full-rank accessor hands to the accessor of   *)
(* the squeezed shape.                                                      *)

\* row-major index of coordinate c in a tensor of the given shape
RECURSIVE FlatIndex(_, _)
FlatIndex(shape, c) ==
  IF shape = << >> THEN 0
  ELSE FlatIndex(SubSeq(shape, 1, Len(shape) - 1), SubSeq(c, 1, Len(c) - 1))
         * shape[Len(shape)] + c[Len(c)]

\* the entries of c at the axes of size > 1, in their original order
RECURSIVE KeptArgs(_, _)
KeptArgs(shape, c) ==
  IF shape = << >> THEN << >>
  ELSE (IF Head(shape) > 1 THEN <<Head(c)>> ELSE << >>) \o KeptArgs(Tail(shape), Tail(c))

\* texel of an unpacked texture that stores the value of a flat index
TexelOfFlat(texShape, index) == <<index % texShape[2], index \div texShape[2]>>

\* the accessor of the queried input takes its squeeze branch
ForwardsToSqueezed ==
  /\ cq.kind = "coord" /\ ~cq.info.isPacked
  /\ Len(cq.info.logicalShape) \in 2..6
  /\ \E i \in 1..Len(cq.info.logicalShape) : cq.info.logicalShape[i] = 1
  /\ ~(Len(cq.info.logicalShape) = 2 /\ cq.info.logicalShape = cq.info.texShape)

-----------------------------------------------------------------------------
(* Output texels of the whole dispatch: every workgroup of a grid, every    *)
(* thread, every work item.                                                 *)

MaxGrid == 3     \* largest number of workgroups per grid axis

\* the position without the workgroup's tile offset
StorePosIn_NoGroupOffset(wg, th, it) ==
  <<th[1] + it[2] * desc.RTSN, th[2] + it[1] * desc.RTSM>>

\* ivec2(globalCol + wn * RTSN, globalRow + wm * RTSM) of workgroup wg; the
\* variant without work items stores at gl_GlobalInvocationID.xy
StorePosIn(wg, th, it) ==
  <<desc.TSN * wg[1] + th[1] + it[2] * desc.RTSN,
    desc.TSM * wg[2] + th[2] + it[1] * desc.RTSM>>

\* the (workgroup, thread, work item) triples of a grid whose store is executed
StoringTriples(grid) ==
  {tr \in ((0..(grid[1] - 1)) \X (0..(grid[2] - 1))) \X Threads \X Items :
     desc.storeGuard => InOutput(StorePosIn(tr[1], tr[2], tr[3]))}

-----------------------------------------------------------------------------
(* Block convolution kernel (the Conv2DProgramCS with a fixed 16 x 16 block *)
(* and a cache of 2 x 2 input cells per thread).                            *)

BLOCK_SIZE == 16

\* new Conv2DProgramCS(convInfo) of the block variant
Conv2DProgramCS_Block(convInfo) ==
  [kernel |-> "Conv2DProgramCS_Block",
   outputShape |-> convInfo.outShape,
   localGroupSize |-> <<16, 16>>,
   cacheRows |-> BLOCK_SIZE * convInfo.strideHeight + 2,
   cacheCols |-> (BLOCK_SIZE * convInfo.strideHeight + 2) * convInfo.inChannels]

\* coords = getOutputCoords() of the thread with gl_LocalInvocationIndex li
BlockCoords(ci, d, wg, li) ==
  getOutput4DCoordsCS(ci.outShape, OutTex(ci), GlobalId(d, wg, li))

\* the 2 x 2 input cells at (r0, c0), stored at cache rows sr, sr + 1 and cache
\* columns sc, sc + 1, every input channel
BlockPatch(ci, batch, sr, sc, r0, c0) ==
  {[cell |-> <<sr + dr, (sc + dc) * ci.inChannels + i>>, from |-> <<batch, r0 + dr, c0 + dc, i>>] :
      dr \in 0..1, dc \in 0..1, i \in 0..(ci.inChannels - 1)}

\* the cache writes of one thread before the barrier: its own patch, and the
\* border rows / columns 2 * BLOCK_SIZE and 2 * BLOCK_SIZE + 1 if row == 0 / col == 0
BlockWrites(ci, d, wg, li) ==
  LET coords == BlockCoords(ci, d, wg, li)
      batch == coords[1]
      xRCorner == coords[2] * ci.strideHeight - ci.padTop
      xCCorner == coords[3] * ci.strideWidth - ci.padLeft
      row == 2 * (li % d.localGroupSize[1])
      col == 2 * (li \div d.localGroupSize[1])
      sXR == xRCorner + BLOCK_SIZE * 2
      sXC == xCCorner + BLOCK_SIZE * 2
  IN BlockPatch(ci, batch, row, col, xRCorner, xCCorner)
       \cup (IF row = 0 THEN BlockPatch(ci, batch, BLOCK_SIZE * 2, col, sXR, xCCorner) ELSE {})
       \cup (IF col = 0 THEN BlockPatch(ci, batch, row, BLOCK_SIZE * 2, xRCorner, sXC) ELSE {})
       \cup (IF row = 0 /\ col = 0
               THEN BlockPatch(ci, batch, BLOCK_SIZE * 2, BLOCK_SIZE * 2, sXR, sXC) ELSE {})

\* the only thread whose writes can reach a cell: cache row r belongs to the
\* thread with 2 * x = r - r % 2, the border rows to the threads with x = 0
BlockWriterOf(ci, d, cell) ==
  LET r == cell[1]
      c == cell[2] \div ci.inChannels
      lx == IF r < 2 * BLOCK_SIZE THEN r \div 2 ELSE 0
      ly == IF c < 2 * BLOCK_SIZE THEN c \div 2 ELSE 0
  IN ly * d.localGroupSize[1] + lx

\* the workgroup reads the input from the cache (else branch of the kernel)
BlockCached(ci, wg) ==
  ~((wg[1] + 1) * BLOCK_SIZE > ci.inHeight \/ (wg[2] + 1) * BLOCK_SIZE > ci.inWidth)

\* the filter taps of a thread whose input position is inside the input, in
\* loop order, with the cache cell the else branch reads
BlockTaps(ci, d, wg, li) ==
  LET coords == BlockCoords(ci, d, wg, li)
      xRCorner == coords[2] * ci.strideHeight - ci.padTop
      xCCorner == coords[3] * ci.strideWidth - ci.padLeft
      d2 == coords[4]
      row == 2 * (li % d.localGroupSize[1])
      col == 2 * (li \div d.localGroupSize[1])
      nD == (ci.inChannels \div 4) * 4 + (ci.inChannels % 4)
      wR(i) == (i - 1) \div (ci.filterWidth * nD)
      wC(i) == ((i - 1) % (ci.filterWidth * nD)) \div nD
      d1(i) == (i - 1) % nD
      all == [i \in 1..(ci.filterHeight * ci.filterWidth * nD) |->
                [wR |-> wR(i), wC |-> wC(i), d1 |-> d1(i),
                 xR |-> xRCorner + wR(i) * ci.dilationHeight,
                 xC |-> xCCorner + wC(i) * ci.dilationWidth,
                 batch |-> coords[1],
                 cell |-> <<row + wR(i), (col + wC(i)) * ci.inChannels + d1(i)>>,
                 w |-> WIn(wR(i), wC(i), d1(i), d2)]]
  IN SelectSeq(all, LAMBDA t : InInput(ci, t.xR, t.xC))

\* dotProd with xValues taken from the cache / fetched with getX
RECURSIVE BlockDotCached(_, _, _)
BlockDotCached(ci, u, taps) ==
  IF taps = << >> THEN 0
  ELSE CacheRead(ci, u, Head(taps).cell) * Head(taps).w + BlockDotCached(ci, u, Tail(taps))

RECURSIVE BlockDotDirect(_, _, _)
BlockDotDirect(ci, u, taps) ==
  IF taps = << >> THEN 0
  ELSE getX(ci, u, <<Head(taps).batch, Head(taps).xR, Head(taps).xC, Head(taps).d1>>)
         * Head(taps).w + BlockDotDirect(ci, u, Tail(taps))

BlockStrides == {<<1, 1>>, <<2, 2>>}
BlockDilations == {<<1, 1>>, <<2, 2>>}
BlockFilters == {<<1, 1>>, <<2, 2>>, <<3, 3>>}
BlockSides == {8, 16}
MaxBlockGroup == 1   \* largest index of an observed workgroup, per grid axis

BlockInit ==
  /\ \E side \in BlockSides, inC \in 1..MaxInChannels, flt \in BlockFilters,
        str \in BlockStrides, dil \in BlockDilations, pad \in ConvPads, u \in UndefValues :
       /\ ConvInfoOf(1, side, side, inC, 1, flt, str, dil, pad).fits
       /\ cv = [kind |-> "args", kernel |-> "Conv2DProgramCS_Block",
                convInfo |-> ConvInfoOf(1, side, side, inC, 1, flt, str, dil, pad), undef |-> u]
  /\ cvpc = [phase |-> "args"]
  /\ cache = << >>
  /\ cvreads = << >>
  /\ cvout = << >>
  /\ MMIdle /\ CoIdle /\ AsmIdle

\* the constructor, and the dispatch of the grid; one workgroup is observed
BlockConstruct ==
  /\ cvpc.phase = "args"
  /\ LET d == Conv2DProgramCS_Block(cv.convInfo)
     IN /\ \E wx \in 0..(CeilDiv(OutTex(cv.convInfo)[2], d.localGroupSize[1]) - 1),
              wy \in 0..(CeilDiv(OutTex(cv.convInfo)[1], d.localGroupSize[2]) - 1) :
              /\ wx <= MaxBlockGroup /\ wy <= MaxBlockGroup
              /\ cv' = [kind |-> "run", kernel |-> cv.kernel, convInfo |-> cv.convInfo,
                        undef |-> cv.undef, desc |-> d, wg |-> <<wx, wy>>]
        /\ cache' = [cell \in (0..(d.cacheRows - 1)) \X (0..(d.cacheCols - 1)) |-> Untouched]
  /\ cvpc' = [phase |-> "fill"]
  /\ UNCHANGED <<mmvars, covars, asmvars, cvreads, cvout>>

\* some thread writes outside the declared array
BlockOverflows ==
  \E li \in 0..(NumThreads(cv.desc) - 1) :
     \E w \in BlockWrites(cv.convInfo, cv.desc, cv.wg, li) : w.cell \notin DOMAIN cache

\* the writes of all threads before the barrier.  No cell is written by two
\* threads.  A write outside the declared array is undefined: it is dropped,
\* or it leaves the contents of the array arbitrary
BlockFill ==
  /\ cvpc.phase = "fill"
  /\ \E clobbered \in (IF BlockOverflows THEN BOOLEAN ELSE {FALSE}) :
       /\ cache' = [cell \in DOMAIN cache |->
                      LET W == BlockWrites(cv.convInfo, cv.desc, cv.wg,
                                           BlockWriterOf(cv.convInfo, cv.desc, cell))
                      IN IF ~clobbered /\ \E w \in W : w.cell = cell
                           THEN (CHOOSE w \in W : w.cell = cell).from
                           ELSE Untouched]
  /\ cvpc' = [phase |-> "barrier"]
  /\ UNCHANGED <<mmvars, covars, asmvars, cv, cvreads, cvout>>

\* the accumulation loops and setOutput(dotProd) of one thread
BlockConvolve(li) ==
  /\ cvpc.phase = "compute"
  /\ cv.kernel = "Conv2DProgramCS_Block"
  /\ cvpc' = [phase |-> "done", thread |-> li]
  /\ LET taps == BlockTaps(cv.convInfo, cv.desc, cv.wg, li)
     IN /\ cvreads' = taps
        /\ cvout' = <<IF BlockCached(cv.convInfo, cv.wg)
                        THEN BlockDotCached(cv.convInfo, cv.undef, taps)
                        ELSE BlockDotDirect(cv.convInfo, cv.undef, taps)>>
  /\ UNCHANGED <<mmvars, covars, asmvars, cv, cache>>

BlockNext ==
  \/ BlockConstruct
  \/ BlockFill
  \/ ConvBarrier
  \/ \E li \in 0..(BLOCK_SIZE * BLOCK_SIZE - 1) : BlockConvolve(li)

SpecConvBlock == BlockInit /\ [][BlockNext]_vars

\* C23: a thread of a workgroup on the cached path finds, for filter tap
\* (wR, wC) and channel d1, the cache cell [row + wR][(col + wC) * inChannels + d1]
\* holding x[batch, xRCorner + wR * dilationHeight, xCCorner + wC * dilationWidth, d1],
\* and its dot product is the one the direct path computes
C23_CachedEqualsDirect ==
  (cvpc.phase = "done" /\ cv.kernel = "Conv2DProgramCS_Block"
     /\ BlockCached(cv.convInfo, cv.wg)) =>
    /\ \A i \in DOMAIN cvreads :
         /\ cvreads[i].cell \in DOMAIN cache
         /\ cache[cvreads[i].cell] =
              <<cvreads[i].batch, cvreads[i].xR, cvreads[i].xC, cvreads[i].d1>>
    /\ cvout = <<BlockDotDirect(cv.convInfo, cv.undef, cvreads)>>

\* C28: for every stride and channel count, every cache cell a thread writes
\* before the barrier and every cache cell it reads after it is inside the
\* declared array cache[16 * strideHeight + 2][(16 * strideHeight + 2) * inChannels]
C28_BlockCacheInBounds ==
  /\ (cvpc.phase = "barrier" /\ cv.kernel = "Conv2DProgramCS_Block") =>
       \A li \in 0..(NumThreads(cv.desc) - 1) :
          \A w \in BlockWrites(cv.convInfo, cv.desc, cv.wg, li) :
             /\ w.cell[1] \in 0..(cv.desc.cacheRows - 1)
             /\ w.cell[2] \in 0..(cv.desc.cacheCols - 1)
  /\ (cvpc.phase = "done" /\ cv.kernel = "Conv2DProgramCS_Block"
        /\ BlockCached(cv.convInfo, cv.wg)) =>
       \A i \in DOMAIN cvreads :
          /\ cvreads[i].cell[1] \in 0..(cv.desc.cacheRows - 1)
          /\ cvreads[i].cell[2] \in 0..(cv.desc.cacheCols - 1)

-----------------------------------------------------------------------------
(* Load phase of MatMulPackedProgramCSV4 *)

\* cells of one shared array a thread writes in the load phase of tile t
LoadCells(arr, th, t) == {w.cell : w \in {v \in LoadWritesV4(th, t) : v.arr = arr}}

\* the load phase of the workgroup writes every cell of the array, no cell
\* outside it, and no cell from two threads or twice from one thread
LoadPartitions(arr, cells, t) ==
  /\ \A th \in Threads : LoadCells(arr, th, t) \subseteq cells
  /\ UNION {LoadCells(arr, th, t) : th \in Threads} = cells
  /\ \A th \in Threads : Cardinality(LoadCells(arr, th, t)) = LPTA
  /\ \A th \in Threads : \A th2 \in Threads :
        th # th2 => LoadCells(arr, th, t) \cap LoadCells(arr, th2, t) = {}

\* C24: for every tiling (TS, TSK, WPT) with WPT dividing TS the kernel built
\* by MatMulPackedProgramCSV4 runs, and the load phase of every tile writes
\* exactly the cells of Asub[TSM][TSK] and of Bsub[TSK][TSN], each cell once
C24_V4LoadCoversTiles ==
  (cfg.variant = "V4" /\ phase \in {"built", "running", "compile_error"}) =>
     /\ phase # "compile_error"
     /\ desc.LPTAnum = LPTA * desc.LPTAden
     /\ phase = "running" =>
          \A t \in 0..(desc.numTiles - 1) :
             /\ LoadPartitions("A", DOMAIN Asub, t)
             /\ LoadPartitions("B", DOMAIN Bsub, t)

-----------------------------------------------------------------------------
\* C25: in every variant every accumulator of every thread holds zero until
\* the accumulation of the first tile, so the value stored is the sum of the
\* per-tile partial products
C25_AccumulatorsStartAtZero ==
  phase = "running" =>
    \A th \in DOMAIN pc :
       (tile[th] = 0 /\ pc[th] \in {"load", "bar1", "compute"}) =>
          \A it \in Items : acc[th][it] = Vec4(0)

-----------------------------------------------------------------------------
(* The cooperative fill loop of Conv2DProgramCS and DepthwiseConv2DProgramCS *)

CACHE_HWC(d) == d.CACHE_H * d.CACHE_W * d.CACHE_C

\* a step of one row of the workgroup instead of the whole workgroup
FillStride_OneRow(d) == d.localGroupSize[1]

\* index += localGroupSize[0] * localGroupSize[1]
FillStride(d) == d.localGroupSize[1] * d.localGroupSize[2]

\* the indices the loop of one thread processes from index on:
\* while (index < CACHE_HWC) { ...; index += stride; }
RECURSIVE FillVisits(_, _)
FillVisits(d, index) ==
  IF index < CACHE_HWC(d) THEN <<index>> \o FillVisits(d, index + FillStride(d)) ELSE << >>

\* C26: when the workgroup runs localGroupSize[0] * localGroupSize[1] threads,
\* the fill loop of every thread ends after at most ceil(CACHE_HWC / #threads)
\* iterations, every index in [0, CACHE_HWC) is processed by exactly one thread,
\* different indices are different cells, and the cells the fill has written
\* hold what the thread that processed them copied
C26_FillPartitionsCache ==
  (cvpc.phase = "barrier" /\ cv.kernel \in {"Conv2DProgramCS", "DepthwiseConv2DProgramCS"}) =>
     LET d == cv.desc
         visits == [li \in 0..(NumThreads(d) - 1) |-> FillVisits(d, li)]
         corner == <<getFirstThreadOutputCoords(cv.convInfo, d, cv.wg)[1],
                     cacheRCorner(cv.convInfo, d, cv.wg),
                     cacheCCorner(cv.convInfo, d, cv.wg),
                     cacheDCorner(cv.convInfo, d, cv.wg)>>
     IN /\ \A li \in DOMAIN visits : Len(visits[li]) <= CeilDiv(CACHE_HWC(d), NumThreads(d))
        /\ \A li \in DOMAIN visits : \A k \in DOMAIN visits[li] :
              /\ visits[li][k] \in 0..(CACHE_HWC(d) - 1)
              /\ VisitedBy(d, visits[li][k]) = li
              /\ \A k2 \in DOMAIN visits[li] : visits[li][k2] = visits[li][k] => k2 = k
        /\ \A index \in 0..(CACHE_HWC(d) - 1) :
              /\ \E k \in DOMAIN visits[VisitedBy(d, index)] :
                    visits[VisitedBy(d, index)][k] = index
              /\ FillOf(cv.convInfo, d, corner, index).cell \in DOMAIN cache
              /\ FillOf(cv.convInfo, d, corner, index).cell[1] * d.CACHE_W * d.CACHE_C
                   + FillOf(cv.convInfo, d, corner, index).cell[2] = index
              /\ FillOf(cv.convInfo, d, corner, index).written =>
                   cache[FillOf(cv.convInfo, d, corner, index).cell]
                     = FillOf(cv.convInfo, d, corner, index).from

\* a workgroup of 112 threads has filled a cache of more cells than threads,
\* so that some thread ran the loop body more than once
C26_Witness ==
  /\ cvpc.phase = "barrier" /\ cv.kernel = "DepthwiseConv2DProgramCS"
  /\ NumThreads(cv.desc) = 112
  /\ CACHE_HWC(cv.desc) > 2 * NumThreads(cv.desc)
  /\ Len(FillVisits(cv.desc, 0)) = 3
  /\ \E cell \in DOMAIN cache : cache[cell] # Untouched /\ cell[1] = 1

-----------------------------------------------------------------------------
(* Workgroup size declared by the assembled compute shader *)

TILE_WIDTH == 32
TILE_HEIGHT == 32

\* layout(local_size_x=TILE_WIDTH, local_size_y=TILE_HEIGHT) in;  makeCSShader
\* takes no descriptor and joins the prefix of getShaderPrefixCS unchanged
local_size == <<TILE_WIDTH, TILE_HEIGHT>>

\* C29: for every kernel descriptor the workgroup size declared in the source
\* makeCSShader assembles equals the descriptor's localGroupSize
C29_DeclaredSizeIsLocalGroupSize ==
  /\ (phase \in {"built", "running", "compile_error"} /\ ~desc.threw) =>
        local_size = desc.localGroupSize
  /\ cv.kind = "run" => local_size = cv.desc.localGroupSize

-----------------------------------------------------------------------------
(* Inputs with a flat offset: a view that starts flatOffset elements into   *)
(* the storage of another tensor.                                           *)

MaxOffset == 2   \* largest flat offset of an input

\* storage shapes that hold the elements of the view after the offset
OffsetTexShapes(shape, off) ==
  {<<CeilDiv(sizeFromShape(shape) + off, tc), tc>> : tc \in 1..(sizeFromShape(shape) + off)}

OffsetInit ==
  /\ MMIdle /\ AsmIdle /\ ConvIdle
  /\ \E sh \in Shapes, off \in 0..MaxOffset :
       \E ts \in OffsetTexShapes(sh, off), c \in CoordsOf(sh) :
          cq = [kind |-> "coord", c |-> c, p |-> <<0, 0>>,
                info |-> [ShapeInfo(FALSE, sh, ts) EXCEPT !.flatOffset = off]]
  /\ cpc = "start"
  /\ uvS = << >> /\ uvI = << >> /\ backS = << >> /\ backI = << >>
  /\ bq = [mode |-> "none"] /\ binv = 0 /\ reads = << >>

\* get<Name>AtOutCoords() of both assemblers, in a kernel whose output has the
\* shape of the input, run for the output texel that holds coordinate cq.c
FetchAtOutCoords ==
  /\ cpc = "fetched" /\ cq.kind = "coord"
  /\ Len(cq.info.logicalShape) <= MaxOutRank
  /\ \E ots \in TexShapesOf(FALSE, cq.info.logicalShape) :
       LET outInfo == ShapeInfo(FALSE, cq.info.logicalShape, ots)
           index == FlatIndex(cq.info.logicalShape, cq.c)
           texel == <<index % ots[2], index \div ots[2]>>
       IN reads' = <<[out |-> outInfo, p |-> texel,
                      uvS |-> getSamplerAtOutputCoords(cq.info, outInfo, texel).uv,
                      uvI |-> getSamplerAtOutputCoordsCS(cq.info, outInfo, texel).uv]>>
  /\ cpc' = "atout"
  /\ UNCHANGED <<mmvars, othervars, cq, uvS, uvI, backS, backI, bq, binv>>

OffsetNext == SampleInput \/ FetchInput \/ FetchAtOutCoords

SpecOffset == OffsetInit /\ [][OffsetNext]_vars

\* the texel that stores element c of the queried view
OffsetTexel ==
  TexelOfFlat(cq.info.texShape, cq.info.flatOffset + FlatIndex(cq.info.logicalShape, cq.c))

\* C30: for a non-uniform unpacked input with a flat offset every emitted
\* accessor of rank 0 to 6, get<Name>(c) and get<Name>AtOutCoords(), addresses
\* the texel of flat index offset + row-major index of c, in both modes
C30_AccessorsHonourOffset ==
  (cq.kind = "coord" /\ ~cq.info.isPacked /\ cq.info.flatOffset # Null) =>
     /\ cpc # "start" => uvS = OffsetTexel
     /\ (cpc \in {"fetched", "atout"} /\ Len(cq.info.logicalShape) <= 4) => uvI = OffsetTexel
     /\ cpc = "atout" => reads[1].uvS = OffsetTexel /\ reads[1].uvI = OffsetTexel

-----------------------------------------------------------------------------
(* The seven kernels under fair scheduling of the threads of a workgroup    *)

FairMs == {1, 3}
FairKs == {5}

\* a few builds of each matmul generator, with one and with two tiles, with
\* and without threads outside the output
MMFairInit == MMInitWith(Configs(FairMs, {3}, FairKs, {<<FALSE, FALSE>>}, {FALSE}, {FALSE}))

ConvFairInit ==
  /\ \E kernel \in {"Conv2DProgramCS", "DepthwiseConv2DProgramCS"}, flt \in ConvFilters :
       cv = [kind |-> "args", kernel |-> kernel, undef |-> 0,
             convInfo |-> ConvInfoOf(1, 3, 7, 1, 1, flt, <<1, 1>>, <<1, 1>>, 1)]
  /\ cvpc = [phase |-> "args"]
  /\ cache = << >> /\ cvreads = << >> /\ cvout = << >>
  /\ MMIdle /\ CoIdle /\ AsmIdle

BlockFairInit ==
  /\ cv = [kind |-> "args", kernel |-> "Conv2DProgramCS_Block", undef |-> 0,
           convInfo |-> ConvInfoOf(1, 8, 8, 1, 1, <<1, 1>>, <<2, 2>>, <<1, 1>>, 0)]
  /\ cvpc = [phase |-> "args"]
  /\ cache = << >> /\ cvreads = << >> /\ cvout = << >>
  /\ MMIdle /\ CoIdle /\ AsmIdle

KernelsInit == MMFairInit \/ ConvFairInit \/ BlockFairInit

\* the statements of one matmul thread between two barriers
ThreadStep(th) == th \in DOMAIN pc /\ (Load(th) \/ Compute(th) \/ Store(th))

\* the statements after the barrier of the two cache-tiled convolution kernels
AfterBarrier ==
  /\ cvpc.phase = "compute" /\ cv.kernel # "Conv2DProgramCS_Block"
  /\ \E li \in 0..(8 * MaxChannelMul * 7 - 1) : Discard(li) \/ Convolve(li)

BlockAfterBarrier == \E li \in 0..(BLOCK_SIZE * BLOCK_SIZE - 1) : BlockConvolve(li)

ConvBuild ==
  /\ cvpc.phase = "args"
  /\ IF cv.kernel = "Conv2DProgramCS_Block" THEN BlockConstruct ELSE ConvConstruct

ConvFill ==
  /\ cvpc.phase = "fill"
  /\ IF cv.kernel = "Conv2DProgramCS_Block" THEN BlockFill ELSE Fill

KernelsNext ==
  \/ MMNext
  \/ ConvBuild
  \/ ConvFill
  \/ ConvBarrier
  \/ AfterBarrier
  \/ BlockAfterBarrier

FairThreads == (0..1) \X (0..1)

\* the device runs every thread that can take a step, and releases a barrier
\* every thread of the workgroup has reached
SpecKernelsFair ==
  /\ KernelsInit /\ [][KernelsNext]_vars
  /\ \A th \in FairThreads : WF_vars(ThreadStep(th))
  /\ WF_vars(BarrierLoaded) /\ WF_vars(BarrierComputed)
  /\ WF_vars(ConvFill) /\ WF_vars(ConvBarrier)
  /\ WF_vars(AfterBarrier) /\ WF_vars(BlockAfterBarrier)

\* barrier() calls a matmul thread has returned from
BarriersPassed(th) ==
  2 * tile[th] + (IF pc[th] \in {"compute", "bar2"} THEN 1 ELSE 0)

\* no matmul thread leaves the tile loop before its last barrier, and two
\* threads of the workgroup are never more than one barrier apart; a thread of
\* a convolution kernel returns or accumulates only after the barrier
BarriersUniform ==
  /\ phase = "running" =>
       \A th \in DOMAIN pc :
          /\ pc[th] \in {"epilogue", "done"} => BarriersPassed(th) = 2 * desc.numTiles
          /\ BarriersPassed(th) <= 2 * desc.numTiles
          /\ \A th2 \in DOMAIN pc :
                BarriersPassed(th) - BarriersPassed(th2) \in {-1, 0, 1}
  /\ cvpc.phase \in {"done", "returned"} =>
       \A cell \in DOMAIN cache : cache[cell] = Untouched \/ Len(cache[cell]) = 4

KernelRunning == phase = "running" \/ cvpc.phase \in {"fill", "barrier", "compute"}

KernelFinished == AllDone \/ cvpc.phase \in {"done", "returned"}

====
